---- MODULE Spec2Model ----
(***************************************************************************)
(* State-machine model of stratum-work:                                    *)
(*   - the Stratum collector (src/collector/main.py): the framing routine  *)
(*     Watcher.get_msg, the client-mode worker (connect_to_stratum,        *)
(*     send_jsonrpc, get_stratum_work, main) and the proxy relay           *)
(*     (run_proxy);                                                        *)
(*   - the chain reconciler (src/backend/main.py): process_block on the    *)
(*     live and the backfill path, and PoolsManager's reindex.             *)
(*                                                                         *)
(* Bytes on a socket are modelled as tokens [c, j].  "n" is the text of a   *)
(* mining.notify object for job j up to its closing brace, "r" the text of *)
(* a response object with a result list up to its closing brace, "}" the   *)
(* closing brace, "x" text that is no JSON, "nl" the newline.  A line is   *)
(* valid JSON exactly when it is an object text followed by "}".           *)
(***************************************************************************)
EXTENDS Integers, Sequences, FiniteSets, TLC

\* ---------------------------------------------------------------- bounds
\* Lines the pool writes to the upstream socket in one run.
MaxLines == 4
\* recv() failures (EOF, reset, 600 s timeout) injected in one run.
MaxFaults == 1
\* Lines of the byte stream get_msg is run on by itself.
MaxStreamLines == 3
\* Lines the pool, and lines the attached miner, write in one proxy run.
MaxProxyLines == 2
\* Height of the chain the backend indexes (heights 1..MaxHeight).
MaxHeight == 2
\* Blocks the ZMQ listener hands to the new-block workers.
MaxLive == 1
\* Calls of load_pools after the one at startup.
MaxLoads == 2
\* Calls of publish each publisher thread makes.
MaxCalls == 1

\* ------------------------------------------------------ program constants
\* Watcher.max_retries
max_retries == 5

VARIABLES
    \* --- collector, client mode (one Watcher) ---
    wpc,        \* position of the worker thread
    ctx,        \* where connect_to_stratum was called from: "try" | "handler"
    attempt,    \* loop variable of connect_to_stratum
    sock,       \* self.sock is not None
    buf,        \* self.buf
    id,         \* self.id
    extranonce, \* self.extranonce1 / extranonce2_length have been set
    keep_alive, \* --keep-alive
    historical, \* ENABLE_HISTORICAL_DATA
    wire,       \* bytes written by the pool, not yet returned by recv()
    nsent,      \* lines the pool has written so far
    faults,     \* recv() failures so far
    stored,     \* jobs inserted into mining_notify, in order
    published,  \* jobs published to the exchange, in order
    ev,         \* what became of the object get_msg returned in the last step
    answered,   \* objects with a result get_msg returned on this socket (2: two or more)
    elapsed,    \* time.time() - last_subscribe_time, in seconds
    silent,     \* seconds the running recv() has waited
    \* --- get_msg run by itself on one byte stream ---
    stream,     \* every byte the peer writes
    out,        \* the objects get_msg has returned, in order
    consumed,   \* the bytes get_msg has removed from self.buf
    nreads,     \* recv() calls of the current get_msg call
    calls,      \* recv() calls of each completed get_msg call
    \* --- collector, proxy mode (run_proxy) ---
    ppc,         \* position in run_proxy
    pool_buf,    \* pool_buf
    client_buf,  \* client_buf
    pool_wire,   \* bytes written by the pool, not yet read
    client_wire, \* bytes written by the miner, not yet read
    pool_read,   \* every byte read from the pool
    client_read, \* every byte read from the miner
    to_client,   \* every byte written to the miner
    to_pool,     \* every byte written to the pool
    pool_sent,   \* lines the pool has written
    client_sent, \* lines the miner has written
    send_failed, \* a sendall() has raised
    \* --- backend ---
    blocks,      \* db.blocks, in natural order
    pools,       \* PoolsManager.pools, in insertion order
    pool_definitions_hash, \* PoolsManager.pool_definitions_hash
    reindexing,  \* PoolsManager.reindexing
    rpc,         \* position of each thread started on reindex_blocks
    rcur,        \* position of each reindex thread's cursor over db.blocks
    spc,         \* position of the backfill thread inside sync_range
    sheight,     \* height the backfill thread is at
    nlive,       \* blocks handed over by the ZMQ listener
    nloads,      \* calls of load_pools
    bev,         \* whether the last backend step stored and published a block
    quiet,       \* per reindex thread: nothing else has written since it began
    settled,     \* a reindex has completed undisturbed, nothing written since
    again,       \* reindex threads that began while settled, undisturbed since
    local_file,  \* the pool list in LOCAL_POOL_FILE, <<>> when there is no file
    \* --- backend, one function called by itself ---
    fpc,         \* "off", "ready" before the call, "done" after it
    fin,         \* the arguments
    fout,        \* the value returned
    \* --- backend, RabbitMQ publisher (integrations/rabbitmq.py) ---
    broker,      \* "up", "down", or "recovered" after the outage
    conn,        \* self.connection and self.channel: "none", "live", "dead"
                 \* (link lost, not yet noticed) or "closed"
    cool,        \* less than reconnect_cooldown since last_reconnect_attempt
    lock,        \* the thread holding self.lock, NoThread when free
    qpc,         \* position of each publisher thread and of the heartbeat thread
    qattempt,    \* attempt of each publisher's publish call
    qcalls,      \* publish calls each publisher has begun
    handed,      \* basic_publish calls of the current call that returned
    ok_io,       \* the current call's basic_publish and I/O drive both returned
    result,      \* what the current call returned: "none" until it returns
    opened,      \* connections opened since the broker recovered (2: two or more)
    \* --- backend, sync_blocks and sync_range (main.py) ---
    best_height, \* the height of the node's best block
    lowest_processed_height, \* as sync_blocks read it: -1 not read, 0 None
    highest_processed_height, \* the same for the highest stored height
    todo,        \* the heights the running loop has still to visit
    requested,   \* the heights getblockhash was asked for, in order
    failed,      \* an RPC or store call of the sync has failed
    \* --- backend, RPCConnectionPool.recreate_pool ---
    now,         \* time.time(), in seconds
    last_recreation_time, \* RPCConnectionPool.last_recreation_time
    pool_lock,   \* the thread holding RPCConnectionPool.lock, NoThread when free
    xpc,         \* position of each thread inside recreate_pool
    current_time, \* current_time of each thread's call
    recreated    \* the times at which the pool was rebuilt, in order

\* The clock of the keep-alive.
kvars == <<elapsed, silent>>
wvars == <<wpc, ctx, attempt, sock, id, extranonce, keep_alive, historical,
           nsent, faults, stored, published, ev, answered, elapsed, silent>>
gvars == <<stream, out, consumed, nreads, calls>>
\* Every variable of the proxy relay.
pvars == <<ppc, pool_buf, client_buf, pool_wire, client_wire, pool_read,
           client_read, to_client, to_pool, pool_sent, client_sent, send_failed>>
\* The variables of the RPC connection pool.
xvars == <<now, last_recreation_time, pool_lock, xpc, current_time, recreated>>
\* The backend's surroundings, which no step of the indexer changes.
benv == <<local_file, xvars>>
\* The variables of a function called by itself.
fvars == <<fpc, fin, fout>>
\* Every variable of the RabbitMQ publisher.
qvars == <<broker, conn, cool, lock, qpc, qattempt, qcalls, handed, ok_io,
           result, opened>>
\* The variables of sync_blocks with its batches.
svars == <<best_height, lowest_processed_height, highest_processed_height, todo,
           requested, failed>>
\* The backend variables outside the block indexer.
brest == <<benv, fvars, qvars, svars>>
\* The variables of the block indexer.
ivars == <<blocks, pools, pool_definitions_hash, reindexing, rpc, rcur, spc,
           sheight, nlive, nloads, bev, quiet, settled, again>>
\* Every variable of the backend.
bvars == <<ivars, brest>>
\* The variables no step of the proxy relay changes.
punused == <<wpc, ctx, attempt, id, keep_alive, historical, nsent, faults, ev,
             buf, wire, gvars, bvars, answered, kvars>>

\* Every variable of the collector.
cvars == <<wvars, buf, wire, gvars, pvars>>

vars == <<cvars, bvars>>

\* ------------------------------------------------------------------ bytes
B(c, j) == [c |-> c, j |-> j]
NL == B("nl", 0)

\* The lines a pool can write: a mining.notify for job j, a response with a
\* result list, a line that is not JSON, an empty line.
NotifyLine(j) == <<B("n", j), B("}", 0), NL>>
ResponseLine == <<B("r", 0), B("}", 0), NL>>
BadLine == <<B("x", 0), NL>>
EmptyLine == <<NL>>
LineKinds == {"notify", "response", "bad", "empty"}
\* What the pool of the client-mode runs writes.
PoolLineKinds == {"notify", "response"}
MakeLine(kind, j) ==
    CASE kind = "notify" -> NotifyLine(j)
      [] kind = "response" -> ResponseLine
      [] kind = "bad" -> BadLine
      [] OTHER -> EmptyLine

\* json.loads(r) succeeds exactly on an object text closed by its brace.
JsonValid(r) ==
    /\ Len(r) = 2
    /\ r[1].c \in {"n", "r"}
    /\ r[2].c = "}"
JsonLoads(r) == r[1]
IsNotify(msg) == msg.c = "n"
HasResult(msg) == msg.c = "r"

\* ---------------------------------------------------------------- get_msg
\* Index of the first newline of b, 0 when there is none.
FirstNL(b) ==
    IF \E i \in 1..Len(b) : b[i] = NL
    THEN CHOOSE i \in 1..Len(b) : b[i] = NL /\ \A k \in 1..(i - 1) : b[k] # NL
    ELSE 0

\* split_buf = self.buf.split(b"\n", maxsplit=1)
SplitHead(b) == IF FirstNL(b) = 0 THEN b ELSE SubSeq(b, 1, FirstNL(b) - 1)
SplitHasRest(b) == FirstNL(b) # 0
SplitRest(b) == IF FirstNL(b) = 0 THEN <<>> ELSE SubSeq(b, FirstNL(b) + 1, Len(b))

\* get_msg returns without reading: r is not empty and json.loads(r) succeeds.
GetMsgReady(b) == SplitHead(b) # <<>> /\ JsonValid(SplitHead(b))
GetMsgResult(b) == JsonLoads(SplitHead(b))
\* get_msg with the assignment to self.buf left out before the return.
GetMsgRestKept(b) == b
\* get_msg with self.buf = b"" on every return.
GetMsgRestDropped(b) == <<>>
\* self.buf after the return
GetMsgRest(b) == IF SplitHasRest(b) THEN SplitRest(b) ELSE <<>>
\* self.buf after one more recv() in either reading branch
GetMsgAppend(b, data) == b \o data

\* ------------------------------------------------- collector, client mode
\* The worker is inside get_msg, called from one of four places.
InGetMsg == wpc \in {"subscribe", "authorize", "work", "keepalive"}

\* ev after a step in which get_msg returned no mining.notify.
NoEvent == [job |-> 0, by |-> "none", store |-> "none", publish |-> "none"]
\* ev after send_jsonrpc has taken msg as the response to its request.
ResponseEvent(msg) ==
    IF IsNotify(msg)
    THEN [job |-> msg.j, by |-> "send_jsonrpc", store |-> "none", publish |-> "none"]
    ELSE NoEvent

\* No keep-alive clock is followed.
KeepaliveOff ==
    /\ elapsed = 0
    /\ silent = 0

\* answered after get_msg has returned msg.
Answered(msg) == IF HasResult(msg) /\ answered < 2 THEN answered + 1 ELSE answered

\* The proxy relay is not running.
ProxyOff ==
    /\ ppc = "off"
    /\ pool_buf = <<>>
    /\ client_buf = <<>>
    /\ pool_wire = <<>>
    /\ client_wire = <<>>
    /\ pool_read = <<>>
    /\ client_read = <<>>
    /\ to_client = <<>>
    /\ to_pool = <<>>
    /\ pool_sent = 0
    /\ client_sent = 0
    /\ send_failed = FALSE

\* The last backend step stored and published nothing.
NoBlockEvent == [stored |-> FALSE, published |-> FALSE]

\* Threads running reindex_blocks at the same time: load_pools starts one
\* per call that finds the definitions changed.
ReindexThreads == {1, 2}

\* The threads that publish, the heartbeat thread, and no thread.
Publishers == {1, 2}
HeartbeatThread == 3
NoThread == 0
Threads == Publishers \cup {HeartbeatThread}

\* The threads that call recreate_pool.
Callers == {1, 2}

\* recreate_pool is not followed.
RpcPoolOff ==
    /\ now = 0
    /\ last_recreation_time = 0
    /\ pool_lock = NoThread
    /\ xpc = [t \in Callers |-> "off"]
    /\ current_time = [t \in Callers |-> 0]
    /\ recreated = <<>>

\* sync_blocks with its batches is not followed.
SyncOff ==
    /\ best_height = 0
    /\ lowest_processed_height = -1
    /\ highest_processed_height = -1
    /\ todo = <<>>
    /\ requested = <<>>
    /\ failed = FALSE

\* The publisher is not running.
PublisherOff ==
    /\ broker = "up"
    /\ conn = "none"
    /\ cool = FALSE
    /\ lock = NoThread
    /\ qpc = [t \in Threads |-> "off"]
    /\ qattempt = [t \in Publishers |-> 0]
    /\ qcalls = [t \in Publishers |-> 0]
    /\ handed = [t \in Publishers |-> 0]
    /\ ok_io = [t \in Publishers |-> FALSE]
    /\ result = [t \in Publishers |-> "none"]
    /\ opened = 0

\* No function is called by itself.
FunctionOff ==
    /\ fpc = "off"
    /\ fin = <<>>
    /\ fout = <<>>

\* The backend is not running.
BackendOff ==
    /\ blocks = <<>>
    /\ pools = <<>>
    /\ pool_definitions_hash = <<>>
    /\ reindexing = FALSE
    /\ rpc = [t \in ReindexThreads |-> "idle"]
    /\ rcur = [t \in ReindexThreads |-> 0]
    /\ spc = "off"
    /\ sheight = 0
    /\ nlive = 0
    /\ nloads = 0
    /\ bev = NoBlockEvent
    /\ quiet = [t \in ReindexThreads |-> FALSE]
    /\ settled = FALSE
    /\ again = {}
    /\ local_file = <<>>
    /\ RpcPoolOff
    /\ FunctionOff
    /\ PublisherOff
    /\ SyncOff

\* get_msg is not run by itself.
GetMsgOff ==
    /\ stream = <<>>
    /\ out = <<>>
    /\ consumed = <<>>
    /\ nreads = 0
    /\ calls = <<>>

Init ==
    /\ wpc = "start"
    /\ ctx = "try"
    /\ attempt = 0
    /\ sock = FALSE
    /\ buf = <<>>
    /\ id = 1
    /\ extranonce = FALSE
    /\ keep_alive = TRUE
    /\ historical = TRUE
    /\ wire = <<>>
    /\ nsent = 0
    /\ faults = 0
    /\ stored = <<>>
    /\ published = <<>>
    /\ ev = NoEvent
    /\ answered = 0
    /\ KeepaliveOff
    /\ GetMsgOff
    /\ ProxyOff
    /\ BackendOff

\* The pool writes one line to the session's socket.
PoolSend(kind) ==
    /\ sock
    /\ nsent < MaxLines
    /\ nsent' = nsent + 1
    /\ wire' = wire \o MakeLine(kind, nsent + 1)
    /\ ev' = NoEvent
    /\ UNCHANGED <<wpc, ctx, attempt, sock, buf, id, extranonce, keep_alive,
                   historical, faults, stored, published>>
    /\ UNCHANGED answered
    /\ UNCHANGED <<gvars, pvars, bvars, kvars>>

\* The process ends: main's finally clause closes the socket.
Exit(how) ==
    /\ wpc' = how
    /\ ctx' = "try"
    /\ attempt' = 0
    /\ sock' = FALSE
    /\ wire' = <<>>

\* main: w = Watcher(...); w.connect_to_rabbitmq(); w.get_stratum_work(...).
\* connect_to_rabbitmq re-raises after max_retries failures, and main catches
\* KeyboardInterrupt only.  In get_stratum_work self.sock is None on the first
\* pass of the loop, so connect_to_stratum is called inside the try block.
Boot(rabbit_up) ==
    /\ wpc = "start"
    /\ IF rabbit_up
       THEN wpc' = "connect" /\ UNCHANGED <<ctx, attempt, sock, wire>>
       ELSE Exit("boot_failed")
    /\ ev' = NoEvent
    /\ UNCHANGED <<buf, id, extranonce, keep_alive, historical, nsent, faults,
                   stored, published>>
    /\ UNCHANGED answered
    /\ UNCHANGED <<gvars, pvars, bvars, kvars>>

\* An exception reaches one of get_stratum_work's two except clauses: close,
\* sleep, connect_to_stratum() again, this time outside any try block.
EnterHandler ==
    /\ wpc' = "connect"
    /\ ctx' = "handler"
    /\ attempt' = 0
    /\ sock' = FALSE
    /\ wire' = <<>>

\* The same, where the socket of the failed attempt is not closed.
ConnectException_unclosed ==
    IF attempt < max_retries - 1
    THEN /\ wpc' = "connect"
         /\ attempt' = attempt + 1
         /\ sock' = TRUE
         /\ wire' = <<>>
         /\ UNCHANGED ctx
    ELSE IF ctx = "try" THEN EnterHandler ELSE Exit("crashed")

\* An exception inside connect_to_stratum's try block: close, then the next
\* attempt, or re-raise on the last one.  Raised from the try block of
\* get_stratum_work it reaches the handler; raised from the handler it leaves
\* get_stratum_work and main.
ConnectException ==
    IF attempt < max_retries - 1
    THEN /\ wpc' = "connect"
         /\ attempt' = attempt + 1
         /\ sock' = FALSE
         /\ wire' = <<>>
         /\ UNCHANGED ctx
    ELSE IF ctx = "try" THEN EnterHandler ELSE Exit("crashed")

\* connect_to_stratum, one pass of its loop: init_socket and connect succeed,
\* and send_jsonrpc("mining.subscribe") sends its request.
ConnectOk ==
    /\ wpc = "connect"
    /\ wpc' = "subscribe"
    /\ sock' = TRUE
    /\ wire' = <<>>
    /\ id' = id + 1
    /\ ev' = NoEvent
    /\ UNCHANGED <<ctx, attempt, buf, extranonce, keep_alive, historical, nsent,
                   faults, stored, published>>
    /\ answered' = 0
    /\ UNCHANGED <<gvars, pvars, bvars, kvars>>

\* connect_to_stratum, one pass of its loop: sock.connect raises.
ConnectFail ==
    /\ wpc = "connect"
    /\ ConnectException
    /\ ev' = NoEvent
    /\ UNCHANGED <<buf, id, extranonce, keep_alive, historical, nsent, faults,
                   stored, published>>
    /\ UNCHANGED answered
    /\ UNCHANGED <<gvars, pvars, bvars, kvars>>

\* get_msg: the head of the buffer is empty or not JSON, and recv() returns
\* the next n bytes.
Recv(n) ==
    /\ InGetMsg
    /\ ~GetMsgReady(buf)
    /\ n \in 1..Len(wire)
    /\ buf' = GetMsgAppend(buf, SubSeq(wire, 1, n))
    /\ wire' = SubSeq(wire, n + 1, Len(wire))
    /\ ev' = NoEvent
    /\ UNCHANGED <<wpc, ctx, attempt, sock, id, extranonce, keep_alive, historical,
                   nsent, faults, stored, published>>
    /\ UNCHANGED answered
    /\ UNCHANGED <<gvars, pvars, bvars, kvars>>

\* get_msg: recv() raises or returns no bytes, and get_msg raises EOFError.
\* Inside connect_to_stratum it is one failed attempt; in the loop of
\* get_stratum_work it reaches the handler.
RecvFail ==
    /\ InGetMsg
    /\ ~GetMsgReady(buf)
    /\ faults < MaxFaults
    /\ faults' = faults + 1
    /\ IF wpc \in {"subscribe", "authorize"} THEN ConnectException ELSE EnterHandler
    /\ ev' = NoEvent
    /\ UNCHANGED <<buf, id, extranonce, keep_alive, historical, nsent, stored,
                   published>>
    /\ UNCHANGED answered
    /\ UNCHANGED <<gvars, pvars, bvars, kvars>>

\* send_jsonrpc("mining.subscribe") in connect_to_stratum: the next object is
\* taken as the response, whatever it is; then mining.authorize is sent.
SubscribeReturn ==
    /\ wpc = "subscribe"
    /\ GetMsgReady(buf)
    /\ buf' = GetMsgRest(buf)
    /\ ev' = ResponseEvent(GetMsgResult(buf))
    /\ extranonce' = (extranonce \/ HasResult(GetMsgResult(buf)))
    /\ id' = id + 1
    /\ wpc' = "authorize"
    /\ UNCHANGED <<ctx, attempt, sock, keep_alive, historical, wire, nsent, faults,
                   stored, published>>
    /\ answered' = Answered(GetMsgResult(buf))
    /\ UNCHANGED <<gvars, pvars, bvars, kvars>>

\* send_jsonrpc("mining.authorize"): the next object is taken as the response
\* and connect_to_stratum returns.
AuthorizeReturn ==
    /\ wpc = "authorize"
    /\ GetMsgReady(buf)
    /\ buf' = GetMsgRest(buf)
    /\ ev' = ResponseEvent(GetMsgResult(buf))
    /\ wpc' = "work"
    /\ UNCHANGED <<ctx, attempt, sock, id, extranonce, keep_alive, historical, wire,
                   nsent, faults, stored, published>>
    /\ answered' = Answered(GetMsgResult(buf))
    /\ UNCHANGED <<gvars, pvars, bvars, kvars>>

\* The keep-alive test that ends a pass of get_stratum_work's loop: when it
\* is due, send_jsonrpc("mining.subscribe") sends on the same socket.
AfterMessage(due) ==
    IF keep_alive /\ due
    THEN wpc' = "keepalive" /\ id' = id + 1
    ELSE wpc' = "work" /\ id' = id

\* get_stratum_work, one pass: get_msg returns an object that is not a
\* mining.notify.
WorkOther(due) ==
    /\ wpc = "work"
    /\ GetMsgReady(buf)
    /\ ~IsNotify(GetMsgResult(buf))
    /\ buf' = GetMsgRest(buf)
    /\ AfterMessage(due)
    /\ ev' = NoEvent
    /\ UNCHANGED <<ctx, attempt, sock, extranonce, keep_alive, historical, wire,
                   nsent, faults, stored, published>>
    /\ answered' = Answered(GetMsgResult(buf))
    /\ UNCHANGED <<gvars, pvars, bvars, kvars>>

\* get_stratum_work, one pass: get_msg returns a mining.notify; the document
\* is inserted when historical data is enabled, then published.
\* insert_notification and publish_to_rabbitmq (after its retries) may raise,
\* and the exception reaches the handler.
WorkNotify(store_ok, publish_ok, due) ==
    /\ wpc = "work"
    /\ GetMsgReady(buf)
    /\ IsNotify(GetMsgResult(buf))
    /\ buf' = GetMsgRest(buf)
    /\ LET job == GetMsgResult(buf).j
           inserted == historical /\ store_ok
           reached == ~historical \/ store_ok
       IN /\ stored' = IF inserted THEN Append(stored, job) ELSE stored
          /\ published' = IF reached /\ publish_ok THEN Append(published, job)
                          ELSE published
          /\ ev' = [job |-> job, by |-> "get_stratum_work",
                    store |-> IF ~historical THEN "skipped"
                              ELSE IF store_ok THEN "ok" ELSE "raised",
                    publish |-> IF ~reached THEN "none"
                                ELSE IF publish_ok THEN "ok" ELSE "raised"]
          /\ IF reached /\ publish_ok
             THEN AfterMessage(due) /\ UNCHANGED <<ctx, attempt, sock, wire>>
             ELSE EnterHandler /\ UNCHANGED id
    /\ UNCHANGED <<extranonce, keep_alive, historical, nsent, faults>>
    /\ UNCHANGED answered
    /\ UNCHANGED <<gvars, pvars, bvars, kvars>>

\* send_jsonrpc("mining.subscribe") of the keep-alive: the next object is
\* taken as the response.
KeepaliveReturn ==
    /\ wpc = "keepalive"
    /\ GetMsgReady(buf)
    /\ buf' = GetMsgRest(buf)
    /\ ev' = ResponseEvent(GetMsgResult(buf))
    /\ extranonce' = (extranonce \/ HasResult(GetMsgResult(buf)))
    /\ wpc' = "work"
    /\ UNCHANGED <<ctx, attempt, sock, id, keep_alive, historical, wire, nsent,
                   faults, stored, published>>
    /\ answered' = Answered(GetMsgResult(buf))
    /\ UNCHANGED <<gvars, pvars, bvars, kvars>>

\* KeyboardInterrupt: main breaks out of its loop.
Interrupt ==
    /\ wpc \notin {"boot_failed", "crashed", "stopped"}
    /\ Exit("stopped")
    /\ ev' = NoEvent
    /\ UNCHANGED <<buf, id, extranonce, keep_alive, historical, nsent, faults,
                   stored, published>>
    /\ UNCHANGED answered
    /\ UNCHANGED <<gvars, pvars, bvars, kvars>>

Next ==
    \/ \E kind \in PoolLineKinds : PoolSend(kind)
    \/ \E up \in BOOLEAN : Boot(up)
    \/ ConnectOk
    \/ ConnectFail
    \/ \E n \in 1..Len(wire) : Recv(n)
    \/ RecvFail
    \/ SubscribeReturn
    \/ AuthorizeReturn
    \/ \E due \in BOOLEAN : WorkOther(due)
    \/ \E s, p, due \in BOOLEAN : WorkNotify(s, p, due)
    \/ KeepaliveReturn
    \/ Interrupt

Spec == Init /\ [][Next]_vars

\* ------------------------------------- collector, the keep-alive and time
\* The interval of the keep-alive test and the timeout init_socket sets.
keepalive_interval == 480
socket_timeout == 600
\* The step of the clock, and where elapsed stops counting.
tick == socket_timeout \div 5
MaxElapsed == socket_timeout + tick

\* What the steps of the timed session leave alone.
kunused == <<ctx, attempt, extranonce, keep_alive, historical, stored, ev,
             answered, gvars, pvars, bvars>>

\* get_stratum_work has connected: subscribe and authorize were answered and
\* last_subscribe_time is now.
InitKeepalive ==
    /\ wpc = "work"
    /\ ctx = "try"
    /\ attempt = 0
    /\ sock = TRUE
    /\ buf = <<>>
    /\ id = 3
    /\ extranonce = TRUE
    /\ keep_alive \in BOOLEAN
    /\ historical = FALSE
    /\ wire = <<>>
    /\ nsent = 0
    /\ faults = 0
    /\ stored = <<>>
    /\ published = <<>>
    /\ ev = NoEvent
    /\ answered = 2
    /\ elapsed = 0
    /\ silent = 0
    /\ GetMsgOff
    /\ ProxyOff
    /\ BackendOff

\* The worker is inside recv() and the pool has written nothing to read.
Blocked == sock /\ InGetMsg /\ ~GetMsgReady(buf) /\ wire = <<>>

\* Time passes while recv() waits.
Tick ==
    /\ Blocked
    /\ silent < socket_timeout
    /\ silent' = silent + tick
    /\ elapsed' = IF elapsed < MaxElapsed THEN elapsed + tick ELSE elapsed
    /\ UNCHANGED <<wpc, sock, buf, wire, id, nsent, faults, published, kunused>>

\* recv() returns the next n bytes.
RecvSome(n) ==
    /\ sock
    /\ InGetMsg
    /\ ~GetMsgReady(buf)
    /\ n \in 1..Len(wire)
    /\ buf' = GetMsgAppend(buf, SubSeq(wire, 1, n))
    /\ wire' = SubSeq(wire, n + 1, Len(wire))
    /\ silent' = 0
    /\ UNCHANGED <<wpc, sock, id, nsent, faults, published, elapsed, kunused>>

\* recv() has waited socket_timeout seconds: socket.timeout, which get_msg
\* turns into EOFError; the handler of get_stratum_work closes the socket.
RecvTimeout ==
    /\ Blocked
    /\ silent = socket_timeout
    /\ faults < MaxFaults
    /\ faults' = faults + 1
    /\ wpc' = "connect"
    /\ sock' = FALSE
    /\ silent' = 0
    /\ UNCHANGED <<buf, wire, id, nsent, published, elapsed, kunused>>

\* The handler's connect_to_stratum returns: a new socket, subscribe and
\* authorize sent and answered.  last_subscribe_time is not assigned.
Reconnect ==
    /\ wpc = "connect"
    /\ wpc' = "work"
    /\ sock' = TRUE
    /\ wire' = <<>>
    /\ id' = id + 2
    /\ UNCHANGED <<buf, nsent, faults, published, elapsed, silent, kunused>>

\* One pass of get_stratum_work's loop: get_msg returns, a mining.notify is
\* published, and the keep-alive test sends mining.subscribe when
\* time.time() - last_subscribe_time > 480.
WorkMessage ==
    /\ wpc = "work"
    /\ sock
    /\ GetMsgReady(buf)
    /\ buf' = GetMsgRest(buf)
    /\ published' = IF IsNotify(GetMsgResult(buf))
                    THEN Append(published, GetMsgResult(buf).j)
                    ELSE published
    /\ IF keep_alive /\ elapsed > keepalive_interval
       THEN wpc' = "keepalive" /\ id' = id + 1
       ELSE wpc' = "work" /\ id' = id
    /\ UNCHANGED <<sock, wire, nsent, faults, elapsed, silent, kunused>>

\* send_jsonrpc of the keep-alive takes the next object as its response and
\* last_subscribe_time = time.time().
Resubscribed ==
    /\ wpc = "keepalive"
    /\ sock
    /\ GetMsgReady(buf)
    /\ buf' = GetMsgRest(buf)
    /\ elapsed' = 0
    /\ wpc' = "work"
    /\ UNCHANGED <<sock, wire, id, nsent, faults, published, silent, kunused>>

NextKeepalive ==
    \/ \E kind \in PoolLineKinds : PoolSend(kind)
    \/ Tick
    \/ \E n \in 1..Len(wire) : RecvSome(n)
    \/ RecvTimeout
    \/ Reconnect
    \/ WorkMessage
    \/ Resubscribed

SpecKeepalive == InitKeepalive /\ [][NextKeepalive]_vars

\* ------------------------------------------------------ get_msg by itself
\* get_msg called again and again on one socket whose peer writes `stream`,
\* with recv() cutting the stream at any byte.
RECURSIVE StreamOf(_, _)
StreamOf(kinds, i) ==
    IF i > Len(kinds) THEN <<>> ELSE MakeLine(kinds[i], i) \o StreamOf(kinds, i + 1)
Streams ==
    {StreamOf(k, 1) : k \in UNION {[1..n -> LineKinds] : n \in 1..MaxStreamLines}}

InitGetMsg ==
    /\ wpc = "work"
    /\ ctx = "try"
    /\ attempt = 0
    /\ sock = TRUE
    /\ id = 1
    /\ extranonce = FALSE
    /\ keep_alive = FALSE
    /\ historical = FALSE
    /\ nsent = 0
    /\ faults = 0
    /\ stored = <<>>
    /\ published = <<>>
    /\ ev = NoEvent
    /\ answered = 0
    /\ KeepaliveOff
    /\ stream \in Streams
    /\ wire = stream
    /\ buf = <<>>
    /\ out = <<>>
    /\ consumed = <<>>
    /\ nreads = 0
    /\ calls = <<>>
    /\ ProxyOff
    /\ BackendOff

\* One pass of get_msg's loop that reads: recv() returns the next n bytes.
GetMsgRecv(n) ==
    /\ ~GetMsgReady(buf)
    /\ n \in 1..Len(wire)
    /\ buf' = GetMsgAppend(buf, SubSeq(wire, 1, n))
    /\ wire' = SubSeq(wire, n + 1, Len(wire))
    /\ nreads' = nreads + 1
    /\ UNCHANGED <<wvars, pvars, bvars, stream, out, consumed, calls>>

\* The pass of get_msg's loop that returns.
GetMsgReturn ==
    /\ GetMsgReady(buf)
    /\ out' = Append(out, GetMsgResult(buf))
    /\ buf' = GetMsgRest(buf)
    /\ consumed' = consumed \o SubSeq(buf, 1, Len(buf) - Len(GetMsgRest(buf)))
    /\ calls' = Append(calls, nreads)
    /\ nreads' = 0
    /\ UNCHANGED <<wvars, pvars, bvars, wire, stream>>

NextGetMsg ==
    \/ \E n \in 1..Len(wire) : GetMsgRecv(n)
    \/ GetMsgReturn

SpecGetMsg == InitGetMsg /\ [][NextGetMsg]_vars

\* -------------------------------------------------- collector, proxy mode
\* main has accepted the miner's connection and connect_to_rabbitmq and
\* connect_to_stratum (which sends nothing in this mode) have succeeded:
\* run_proxy starts.
InitProxy ==
    /\ wpc = "proxy"
    /\ ctx = "try"
    /\ attempt = 0
    /\ sock = TRUE
    /\ id = 1
    /\ extranonce = FALSE
    /\ keep_alive = FALSE
    /\ historical = TRUE
    /\ nsent = 0
    /\ faults = 0
    /\ stored = <<>>
    /\ published = <<>>
    /\ ev = NoEvent
    /\ answered = 0
    /\ KeepaliveOff
    /\ buf = <<>>
    /\ wire = <<>>
    /\ GetMsgOff
    /\ ppc = "select"
    /\ pool_buf = <<>>
    /\ client_buf = <<>>
    /\ pool_wire = <<>>
    /\ client_wire = <<>>
    /\ pool_read = <<>>
    /\ client_read = <<>>
    /\ to_client = <<>>
    /\ to_pool = <<>>
    /\ pool_sent = 0
    /\ client_sent = 0
    /\ send_failed = FALSE
    /\ BackendOff

\* b"\n" in pool_buf
HasLine(b) == FirstNL(b) # 0

\* The pool writes one line.
ProxyPoolWrites(kind) ==
    /\ ppc # "ended"
    /\ pool_sent < MaxProxyLines
    /\ pool_sent' = pool_sent + 1
    /\ pool_wire' = pool_wire \o MakeLine(kind, pool_sent + 1)
    /\ UNCHANGED <<ppc, pool_buf, client_buf, client_wire, pool_read, client_read,
                   to_client, to_pool, client_sent, send_failed, sock, extranonce,
                   stored, published, punused>>

\* The miner writes one line.
ProxyMinerWrites(kind) ==
    /\ ppc # "ended"
    /\ client_sent < MaxProxyLines
    /\ client_sent' = client_sent + 1
    /\ client_wire' = client_wire \o MakeLine(kind, client_sent + 1)
    /\ UNCHANGED <<ppc, pool_buf, client_buf, pool_wire, pool_read, client_read,
                   to_client, to_pool, pool_sent, send_failed, sock, extranonce,
                   stored, published, punused>>

\* select() reports self.sock readable and recv() returns n bytes, which are
\* appended to pool_buf; the inner loop follows while there is a line.
ProxyPoolRecv(n) ==
    /\ ppc = "select"
    /\ n \in 1..Len(pool_wire)
    /\ pool_buf' = pool_buf \o SubSeq(pool_wire, 1, n)
    /\ pool_read' = pool_read \o SubSeq(pool_wire, 1, n)
    /\ pool_wire' = SubSeq(pool_wire, n + 1, Len(pool_wire))
    /\ ppc' = IF HasLine(pool_buf') THEN "pool_lines" ELSE "select"
    /\ UNCHANGED <<client_buf, client_wire, client_read, to_client, to_pool,
                   pool_sent, client_sent, send_failed, sock, extranonce, stored,
                   published, punused>>

\* select() raises, or a recv() raises or returns no bytes: run_proxy breaks
\* out of its loop.
ProxyBreak ==
    /\ ppc = "select"
    /\ ppc' = "ended"
    /\ UNCHANGED <<pool_buf, client_buf, pool_wire, client_wire, pool_read,
                   client_read, to_client, to_pool, pool_sent, client_sent,
                   send_failed, sock, extranonce, stored, published, punused>>

\* Where run_proxy goes after a line of the inner loop over b: on with the
\* loop, or, when no line is left or sendall raised (break), back to select.
AfterLine(b, sent_ok, here) == IF sent_ok /\ HasLine(b) THEN here ELSE "select"

\* One pass of the inner loop over pool_buf.  An empty line is skipped.  A
\* mining.notify is inserted and published before the line is forwarded, and
\* an exception of insert_notification or publish_to_rabbitmq leaves
\* run_proxy.  Then the line is written to the miner.
ProxyPoolLine(store_ok, publish_ok, send_ok) ==
    /\ ppc = "pool_lines"
    /\ LET line == SplitHead(pool_buf)
           rest == SplitRest(pool_buf)
           msg_ok == line # <<>> /\ JsonValid(line)
           notify == msg_ok /\ IsNotify(JsonLoads(line))
           recorded == ~notify \/ (store_ok /\ publish_ok)
           sent == line # <<>> /\ recorded /\ send_ok
       IN /\ pool_buf' = rest
          /\ stored' = IF notify /\ store_ok THEN Append(stored, JsonLoads(line).j)
                       ELSE stored
          /\ published' = IF notify /\ store_ok /\ publish_ok
                          THEN Append(published, JsonLoads(line).j) ELSE published
          /\ extranonce' = (extranonce \/ (recorded /\ msg_ok /\ HasResult(JsonLoads(line))))
          /\ to_client' = IF sent THEN to_client \o line \o <<NL>> ELSE to_client
          /\ send_failed' = (send_failed \/ (line # <<>> /\ recorded /\ ~send_ok))
          /\ ppc' = IF ~recorded THEN "ended"
                    ELSE AfterLine(rest, line = <<>> \/ send_ok, "pool_lines")
    /\ UNCHANGED <<client_buf, pool_wire, client_wire, pool_read, client_read,
                   to_pool, pool_sent, client_sent, sock, punused>>

\* select() reports client_socket readable and recv() returns n bytes.
ProxyClientRecv(n) ==
    /\ ppc = "select"
    /\ n \in 1..Len(client_wire)
    /\ client_buf' = client_buf \o SubSeq(client_wire, 1, n)
    /\ client_read' = client_read \o SubSeq(client_wire, 1, n)
    /\ client_wire' = SubSeq(client_wire, n + 1, Len(client_wire))
    /\ ppc' = IF HasLine(client_buf') THEN "client_lines" ELSE "select"
    /\ UNCHANGED <<pool_buf, pool_wire, pool_read, to_client, to_pool, pool_sent,
                   client_sent, send_failed, sock, extranonce, stored, published,
                   punused>>

\* One pass of the inner loop over client_buf: an empty line is skipped, any
\* other line is written to the pool.
ProxyClientLine(send_ok) ==
    /\ ppc = "client_lines"
    /\ LET line == SplitHead(client_buf)
           rest == SplitRest(client_buf)
       IN /\ client_buf' = rest
          /\ to_pool' = IF line # <<>> /\ send_ok THEN to_pool \o line \o <<NL>>
                        ELSE to_pool
          /\ send_failed' = (send_failed \/ (line # <<>> /\ ~send_ok))
          /\ ppc' = AfterLine(rest, line = <<>> \/ send_ok, "client_lines")
    /\ UNCHANGED <<pool_buf, pool_wire, client_wire, pool_read, client_read,
                   to_client, pool_sent, client_sent, sock, extranonce, stored,
                   published, punused>>

NextProxy ==
    \/ \E kind \in LineKinds : ProxyPoolWrites(kind)
    \/ \E kind \in LineKinds : ProxyMinerWrites(kind)
    \/ \E n \in 1..Len(pool_wire) : ProxyPoolRecv(n)
    \/ ProxyBreak
    \/ \E s, p, w \in BOOLEAN : ProxyPoolLine(s, p, w)
    \/ \E n \in 1..Len(client_wire) : ProxyClientRecv(n)
    \/ \E w \in BOOLEAN : ProxyClientLine(w)

SpecProxy == InitProxy /\ [][NextProxy]_vars

\* ---------------------------------------------------------------- backend
\* A python dict with no keys.
EmptyDict == [k \in {} |-> ""]

\* d.get(k), with "None" for python's None.
Get(d, k) == IF k \in DOMAIN d THEN d[k] ELSE "None"

\* d.get(k, default)
GetOr(d, k, default) == IF k \in DOMAIN d THEN d[k] ELSE default

\* The chain the node serves: the hash, the coinbase script (as text) and the
\* coinbase output addresses of the block at height h.
HashOf(h) == <<"hash", h>>
ScriptOf(h) == IF h % 2 = 1 THEN <<"a", "nl", "b">> ELSE <<"d">>
AddressesOf(h) == IF h % 2 = 1 THEN <<"X">> ELSE <<>>

\* The pool lists the definitions URL serves over time.  Each list is in file
\* order; no pool carries regexes.
PoolsV1 ==
    << [id |-> "1", name |-> "PoolA", addresses |-> {"X"}, tags |-> {<<"a", "b">>}] >>
PoolsV2 ==
    << [id |-> "2", name |-> "PoolA", addresses |-> {}, tags |-> {<<"a", "b">>}],
       [id |-> "3", name |-> "PoolB", addresses |-> {}, tags |-> {<<"b">>, <<"d">>}] >>
RuleSets == {PoolsV1, PoolsV2}

\* tag in coinbase_text
Contains(text, tag) ==
    \E i \in 0..(Len(text) - Len(tag)) : SubSeq(text, i + 1, i + Len(tag)) = tag

\* The script decoded to text with the newlines removed.
CoinbaseText(script) == SelectSeq(script, LAMBDA c : c # "nl")

\* The result dict built from the first pool of ps, in order, that passes.
FirstPool(ps, hits, how) ==
    IF hits = {} THEN EmptyDict
    ELSE LET i == CHOOSE i \in hits : \A k \in hits : i <= k
         IN [id |-> ps[i].id, name |-> ps[i].name, match_type |-> how]

identify_by_address(ps, coinbase_addresses) ==
    IF coinbase_addresses = <<>> THEN EmptyDict
    ELSE FirstPool(ps,
                   {i \in 1..Len(ps) : \E a \in 1..Len(coinbase_addresses) :
                        coinbase_addresses[a] \in ps[i].addresses},
                   "address")

\* Lower case of a character, as re.IGNORECASE compares.
Lower(c) == IF c = "A" THEN "a" ELSE IF c = "B" THEN "b" ELSE c

LowerText(text) == [i \in 1..Len(text) |-> Lower(text[i])]

\* re.search(pattern, text, re.IGNORECASE) for a pattern of plain characters.
Search(pattern, text) == Contains(LowerText(text), LowerText(pattern))

\* Pool p has a tag that is in the text.
TagHit(p, text) == \E tag \in GetOr(p, "tags", {}) : Contains(text, tag)

\* Pool p has a regex that is found in the text.
RegexHit(p, text) == \E pattern \in GetOr(p, "regexes", {}) : Search(pattern, text)

\* The pools are gone through once, in order; each pool is tried by its
\* tags and then by its regexes before the next pool is looked at.
identify_by_tag(ps, script) ==
    IF script = <<>> THEN EmptyDict
    ELSE FirstPool(ps,
                   {i \in 1..Len(ps) : \/ TagHit(ps[i], CoinbaseText(script))
                                       \/ RegexHit(ps[i], CoinbaseText(script))},
                   "tag")

\* identify_pool with self.pools loaded: by address first, then by tag, else {}.
identify_pool(ps, script, coinbase_addresses) ==
    IF DOMAIN identify_by_address(ps, coinbase_addresses) # {}
    THEN identify_by_address(ps, coinbase_addresses)
    ELSE identify_by_tag(ps, script)

\* The document process_block builds; it carries no coinbase addresses.
BlockDoc(h, mining_pool) ==
    [height |-> h, coinbase_script_sig |-> ScriptOf(h), block_hash |-> HashOf(h),
     mining_pool |-> mining_pool]

\* Indexes of the documents of bs with this block hash.
WithHash(bs, bhash) == {i \in 1..Len(bs) : bs[i].block_hash = bhash}

\* Index of the document find_one / update_one pick among these: the first.
FirstOf(idx) == CHOOSE i \in idx : \A k \in idx : i <= k

\* update_one({"block_hash": ...}, {"$set": doc}, upsert=True)
Upsert(bs, doc) ==
    IF WithHash(bs, doc.block_hash) = {} THEN Append(bs, doc)
    ELSE [bs EXCEPT ![FirstOf(WithHash(bs, doc.block_hash))] = doc]

\* Something other than reindex thread t writes: no run but t's stays
\* undisturbed, and nothing is settled any more.
Disturb(t) ==
    /\ quiet' = [u \in ReindexThreads |-> u = t /\ quiet[u]]
    /\ settled' = FALSE
    /\ again' = {}

\* startup_event has loaded the pool list and started the backfill, ZMQ and
\* updater threads; db.blocks is empty.
InitBackend ==
    /\ wpc = "off"
    /\ ctx = "try"
    /\ attempt = 0
    /\ sock = FALSE
    /\ id = 1
    /\ extranonce = FALSE
    /\ keep_alive = FALSE
    /\ historical = FALSE
    /\ nsent = 0
    /\ faults = 0
    /\ stored = <<>>
    /\ published = <<>>
    /\ ev = NoEvent
    /\ answered = 0
    /\ KeepaliveOff
    /\ buf = <<>>
    /\ wire = <<>>
    /\ GetMsgOff
    /\ ProxyOff
    /\ blocks = <<>>
    /\ pools \in RuleSets
    /\ pool_definitions_hash = pools
    /\ reindexing = FALSE
    /\ rpc = [t \in ReindexThreads |-> "idle"]
    /\ rcur = [t \in ReindexThreads |-> 0]
    /\ spc = "check"
    /\ sheight = MaxHeight
    /\ nlive = 0
    /\ nloads = 0
    /\ bev = NoBlockEvent
    /\ quiet = [t \in ReindexThreads |-> FALSE]
    /\ settled = FALSE
    /\ again = {}
    /\ local_file = <<>>
    /\ RpcPoolOff
    /\ FunctionOff
    /\ PublisherOff
    /\ SyncOff

\* process_block(block_hash, is_new_block) for the block at height h: an
\* exception of getblock or of the store is logged and nothing is published.
process_block(h, is_new_block, rpc_ok, store_ok) ==
    LET mining_pool == identify_pool(pools, ScriptOf(h), AddressesOf(h))
        doc == BlockDoc(h, mining_pool)
    IN IF rpc_ok /\ store_ok
       THEN /\ blocks' = IF is_new_block THEN Upsert(blocks, doc) ELSE Append(blocks, doc)
            /\ bev' = [stored |-> TRUE, published |-> TRUE]
            /\ Disturb(0)
       ELSE /\ bev' = NoBlockEvent
            /\ UNCHANGED <<blocks, quiet, settled, again>>

\* The ZMQ listener receives the block at height h and a new-block worker
\* runs process_block(bhash, True).
LiveBlock(h, rpc_ok, store_ok) ==
    /\ spc # "off"
    /\ nlive < MaxLive
    /\ nlive' = nlive + 1
    /\ process_block(h, TRUE, rpc_ok, store_ok)
    /\ UNCHANGED <<pools, pool_definitions_hash, reindexing, rpc, rcur, spc,
                   sheight, nloads, brest, cvars>>

\* The height sync_range turns to after sheight.
NextHeight == IF sheight > 1 THEN "check" ELSE "done"

\* sync_range at one height, up to the existence check: an exception of
\* getblockhash, or a document at this height, moves on to the next height.
SyncCheck(rpc_ok) ==
    /\ spc = "check"
    /\ LET existing == \E i \in 1..Len(blocks) : blocks[i].height = sheight
       IN IF rpc_ok /\ ~existing
          THEN /\ spc' = "process"
               /\ sheight' = sheight
          ELSE /\ spc' = NextHeight
               /\ sheight' = IF sheight > 1 THEN sheight - 1 ELSE sheight
    /\ bev' = NoBlockEvent
    /\ UNCHANGED <<blocks, pools, pool_definitions_hash, reindexing, rpc, rcur,
                   nlive, nloads, quiet, settled, again, brest, cvars>>

\* sync_range at one height, after the check: process_block(block_hash, False).
SyncProcess(rpc_ok, store_ok) ==
    /\ spc = "process"
    /\ process_block(sheight, FALSE, rpc_ok, store_ok)
    /\ spc' = NextHeight
    /\ sheight' = IF sheight > 1 THEN sheight - 1 ELSE sheight
    /\ UNCHANGED <<pools, pool_definitions_hash, reindexing, rpc, rcur, nlive,
                   nloads, brest, cvars>>

\* load_pools fetches the list new_pools: the hash and the cache are replaced
\* and, when the hash differs from the one before and db.blocks is not empty,
\* a thread is started on reindex_blocks.
LoadPools(new_pools) ==
    /\ spc # "off"
    /\ nloads < MaxLoads
    /\ nloads' = nloads + 1
    /\ pool_definitions_hash' = new_pools
    /\ pools' = new_pools
    /\ LET definitions_changed == pool_definitions_hash # new_pools
       IN IF definitions_changed /\ Len(blocks) > 0
          THEN \E t \in ReindexThreads :
                   /\ rpc[t] = "idle"
                   /\ \A u \in ReindexThreads : rpc[u] = "idle" => t <= u
                   /\ rpc' = [rpc EXCEPT ![t] = "check"]
          ELSE rpc' = rpc
    /\ IF pools' # pools THEN Disturb(0) ELSE UNCHANGED <<quiet, settled, again>>
    /\ bev' = NoBlockEvent
    /\ UNCHANGED <<blocks, reindexing, rcur, spc, sheight, nlive, brest, cvars>>

\* reindex_blocks, the test of the flag: return when it is set.
ReindexCheck(t) ==
    /\ rpc[t] = "check"
    /\ rpc' = [rpc EXCEPT ![t] = IF reindexing THEN "idle" ELSE "set"]
    /\ bev' = NoBlockEvent
    /\ UNCHANGED <<blocks, pools, pool_definitions_hash, reindexing, rcur, spc,
                   sheight, nlive, nloads, quiet, settled, again, brest, cvars>>

\* reindex_blocks, the flag is set and the cursor over db.blocks is opened.
ReindexSet(t) ==
    /\ rpc[t] = "set"
    /\ reindexing' = TRUE
    /\ rcur' = [rcur EXCEPT ![t] = 1]
    /\ rpc' = [rpc EXCEPT ![t] = "loop"]
    /\ quiet' = [quiet EXCEPT ![t] = TRUE]
    /\ again' = IF settled THEN again \cup {t} ELSE again \ {t}
    /\ bev' = NoBlockEvent
    /\ UNCHANGED <<blocks, pools, pool_definitions_hash, spc, sheight, nlive,
                   nloads, settled, brest, cvars>>

\* A re-identification that goes by the stored record instead of the script.
ReidentifiedFromStored(block) ==
    IF GetOr(block.mining_pool, "name", "Unknown") = "Unknown"
    THEN [name |-> "Other", id |-> "other"]
    ELSE [name |-> "Unknown", id |-> "unknown"]

\* The record reprocess_block_pool_info computes for a stored document: the
\* addresses are read from the document, which has none.
Reidentified(block) ==
    LET mining_pool == identify_pool(pools, block.coinbase_script_sig, <<>>)
    IN IF DOMAIN mining_pool = {} THEN [name |-> "Unknown", id |-> "unknown"]
       ELSE mining_pool

\* One pass of reindex_blocks' loop: reprocess_block_pool_info for the hash of
\* the document under the cursor.  The first document with that hash is read
\* and, when the names differ, updated and published.
ReindexBlock(t) ==
    /\ rpc[t] = "loop"
    /\ rcur[t] <= Len(blocks)
    /\ rcur' = [rcur EXCEPT ![t] = rcur[t] + 1]
    /\ LET block_hash == blocks[rcur[t]].block_hash
           i == FirstOf(WithHash(blocks, block_hash))
           old_pool_name == GetOr(blocks[i].mining_pool, "name", "Unknown")
           mining_pool == Reidentified(blocks[i])
           new_pool_name == GetOr(mining_pool, "name", "Unknown")
       IN IF old_pool_name # new_pool_name
          THEN /\ blocks' = [blocks EXCEPT ![i].mining_pool = mining_pool]
               /\ bev' = [stored |-> TRUE, published |-> TRUE]
               /\ Disturb(t)
          ELSE /\ bev' = NoBlockEvent
               /\ UNCHANGED <<blocks, quiet, settled, again>>
    /\ UNCHANGED <<pools, pool_definitions_hash, reindexing, rpc, spc, sheight,
                   nlive, nloads, brest, cvars>>

\* reindex_blocks, the cursor is exhausted: the flag is cleared.
ReindexFinish(t) ==
    /\ rpc[t] = "loop"
    /\ rcur[t] > Len(blocks)
    /\ reindexing' = FALSE
    /\ rpc' = [rpc EXCEPT ![t] = "idle"]
    /\ rcur' = [rcur EXCEPT ![t] = 0]
    /\ settled' = quiet[t]
    /\ quiet' = [quiet EXCEPT ![t] = FALSE]
    /\ again' = again \ {t}
    /\ bev' = NoBlockEvent
    /\ UNCHANGED <<blocks, pools, pool_definitions_hash, spc, sheight, nlive,
                   nloads, brest, cvars>>

\* load_pools when the fetch fails three times and LOCAL_POOL_FILE exists:
\* db.pools and the cache are replaced by the file's list and the call
\* returns; the hash is not touched and no thread is started.
LoadPoolsLocal ==
    /\ spc # "off"
    /\ nloads < MaxLoads
    /\ local_file # <<>>
    /\ nloads' = nloads + 1
    /\ pools' = local_file
    /\ bev' = NoBlockEvent
    /\ IF pools' # pools THEN Disturb(0) ELSE UNCHANGED <<quiet, settled, again>>
    /\ UNCHANGED <<blocks, pool_definitions_hash, reindexing, rpc, rcur, spc,
                   sheight, nlive, brest, cvars>>

\* load_pools when the fetch fails three times and there is no local file:
\* the list in db.pools, which is the cached one, is returned to the caller.
LoadPoolsStore ==
    /\ spc # "off"
    /\ nloads < MaxLoads
    /\ local_file = <<>>
    /\ nloads' = nloads + 1
    /\ bev' = NoBlockEvent
    /\ UNCHANGED <<blocks, pools, pool_definitions_hash, reindexing, rpc, rcur,
                   spc, sheight, nlive, quiet, settled, again, brest, cvars>>

NextBackend ==
    \/ \E h \in 1..MaxHeight, r, s \in BOOLEAN : LiveBlock(h, r, s)
    \/ \E r \in BOOLEAN : SyncCheck(r)
    \/ \E r, s \in BOOLEAN : SyncProcess(r, s)
    \/ \E new_pools \in RuleSets : LoadPools(new_pools)
    \/ \E t \in ReindexThreads : ReindexCheck(t)
    \/ \E t \in ReindexThreads : ReindexSet(t)
    \/ \E t \in ReindexThreads : ReindexBlock(t)
    \/ \E t \in ReindexThreads : ReindexFinish(t)

SpecBackend == InitBackend /\ [][NextBackend]_vars

\* The backend where the definitions URL may be unreachable and a local
\* pool file may exist.
InitLoadPools ==
    /\ wpc = "off"
    /\ ctx = "try"
    /\ attempt = 0
    /\ sock = FALSE
    /\ id = 1
    /\ extranonce = FALSE
    /\ keep_alive = FALSE
    /\ historical = FALSE
    /\ nsent = 0
    /\ faults = 0
    /\ stored = <<>>
    /\ published = <<>>
    /\ ev = NoEvent
    /\ answered = 0
    /\ KeepaliveOff
    /\ buf = <<>>
    /\ wire = <<>>
    /\ GetMsgOff
    /\ ProxyOff
    /\ blocks = <<>>
    /\ pools \in RuleSets
    /\ pool_definitions_hash = pools
    /\ reindexing = FALSE
    /\ rpc = [t \in ReindexThreads |-> "idle"]
    /\ rcur = [t \in ReindexThreads |-> 0]
    /\ spc = "check"
    /\ sheight = MaxHeight
    /\ nlive = 0
    /\ nloads = 0
    /\ bev = NoBlockEvent
    /\ quiet = [t \in ReindexThreads |-> FALSE]
    /\ settled = FALSE
    /\ again = {}
    /\ local_file \in RuleSets \cup {<<>>}
    /\ RpcPoolOff
    /\ FunctionOff
    /\ PublisherOff
    /\ SyncOff

NextLoadPools ==
    \/ NextBackend
    \/ LoadPoolsLocal
    \/ LoadPoolsStore

SpecLoadPools == InitLoadPools /\ [][NextLoadPools]_vars

\* ------------------------------------------- backend functions by themselves
\* The collector is not running.
CollectorOff ==
    /\ wpc = "off"
    /\ ctx = "try"
    /\ attempt = 0
    /\ sock = FALSE
    /\ id = 1
    /\ extranonce = FALSE
    /\ keep_alive = FALSE
    /\ historical = FALSE
    /\ nsent = 0
    /\ faults = 0
    /\ stored = <<>>
    /\ published = <<>>
    /\ ev = NoEvent
    /\ answered = 0
    /\ KeepaliveOff
    /\ buf = <<>>
    /\ wire = <<>>
    /\ GetMsgOff
    /\ ProxyOff

\* The block indexer is not running.
IndexerOff ==
    /\ blocks = <<>>
    /\ pools = <<>>
    /\ pool_definitions_hash = <<>>
    /\ reindexing = FALSE
    /\ rpc = [t \in ReindexThreads |-> "idle"]
    /\ rcur = [t \in ReindexThreads |-> 0]
    /\ spc = "off"
    /\ sheight = 0
    /\ nlive = 0
    /\ nloads = 0
    /\ bev = NoBlockEvent
    /\ quiet = [t \in ReindexThreads |-> FALSE]
    /\ settled = FALSE
    /\ again = {}
    /\ local_file = <<>>
    /\ RpcPoolOff
    /\ SyncOff

\* Everything but the called function is off.
OnlyFunction ==
    /\ CollectorOff
    /\ IndexerOff
    /\ PublisherOff

\* The value is returned; nothing else changes.
Return(value) ==
    /\ fpc = "ready"
    /\ fpc' = "done"
    /\ fout' = value
    /\ UNCHANGED <<fin, cvars, blocks, pools, pool_definitions_hash, reindexing,
                   rpc, rcur, spc, sheight, nlive, nloads, bev, quiet, settled,
                   again, benv, qvars, svars>>

\* Pools a list may hold: one known by address, one by a regex, one by
\* literal tags, one by a tag and a regex.
PoolByAddress ==
    [id |-> "1", name |-> "PoolA", addresses |-> {"X"}, tags |-> {}, regexes |-> {}]
PoolByRegex ==
    [id |-> "2", name |-> "PoolR", addresses |-> {}, tags |-> {}, regexes |-> {<<"a", "b">>}]
PoolByTag ==
    [id |-> "3", name |-> "PoolT", addresses |-> {}, tags |-> {<<"A", "b">>, <<"d">>},
     regexes |-> {}]
PoolByBoth ==
    [id |-> "4", name |-> "PoolB", addresses |-> {"Y"}, tags |-> {<<"b">>},
     regexes |-> {<<"D">>}]
SomePools == {PoolByAddress, PoolByRegex, PoolByTag, PoolByBoth}

\* Pools in one list.
MaxPools == 2

\* The pool lists of up to MaxPools different pools, in every order.
PoolLists ==
    {ps \in UNION {[1..n -> SomePools] : n \in 0..MaxPools} :
        \A i, k \in 1..Len(ps) : i # k => ps[i] # ps[k]}

\* Coinbase scripts and coinbase address lists.
SomeScripts == {<<>>, <<"A", "nl", "b">>, <<"a", "b">>, <<"d">>, <<"c">>}
SomeAddresses == {<<>>, <<"X">>, <<"Z", "Y">>, <<"Z">>}

InitIdentify ==
    /\ OnlyFunction
    /\ fpc = "ready"
    /\ fin \in [pools : PoolLists, script : SomeScripts, addresses : SomeAddresses]
    /\ fout = <<>>

\* identify_pool is called on the arguments.
IdentifyCall == Return(identify_pool(fin.pools, fin.script, fin.addresses))

NextIdentify == IdentifyCall

SpecIdentify == InitIdentify /\ [][NextIdentify]_vars

\* ------------------------------------------------ backend, RabbitMQ publisher
\* publish's default max_retries.
publish_max_retries == 3

\* The constructor has connected; the publisher threads and the heartbeat
\* thread are started.
InitPublisher ==
    /\ CollectorOff
    /\ IndexerOff
    /\ FunctionOff
    /\ broker = "up"
    /\ conn = "live"
    /\ cool \in BOOLEAN
    /\ lock = NoThread
    /\ qpc = [t \in Threads |-> IF t = HeartbeatThread THEN "hb" ELSE "idle"]
    /\ qattempt = [t \in Publishers |-> 0]
    /\ qcalls = [t \in Publishers |-> 0]
    /\ handed = [t \in Publishers |-> 0]
    /\ ok_io = [t \in Publishers |-> FALSE]
    /\ result = [t \in Publishers |-> "none"]
    /\ opened = 0

\* What no step of the publisher changes.
qunused == <<ivars, benv, fvars, svars, cvars>>

\* A lock that never makes a thread wait.
CanAcquireAlways(t) == TRUE

\* with self.lock: the lock is free or held by this thread already.
CanAcquire(t) == lock = NoThread \/ lock = t

\* A loop that goes round once more than range(max_retries).
LastAttemptLate(a) == a >= publish_max_retries

\* attempt is the last one of range(max_retries).
LastAttempt(a) == a >= publish_max_retries - 1

\* connect() succeeds when the broker can be reached.
ConnectSucceeds == broker # "down"

\* self.connection after connect(): the new connection, or, after five
\* failed attempts, the old one, closed.
AfterConnect == IF ConnectSucceeds THEN "live" ELSE IF conn = "none" THEN "none" ELSE "closed"

\* The count of connections opened since the recovery, after connect().
OpenedAfterConnect ==
    IF broker = "recovered" THEN (IF opened = 0 THEN 1 ELSE 2) ELSE opened

\* The broker goes away: an open connection loses its link.
BrokerDown ==
    /\ broker = "up"
    /\ broker' = "down"
    /\ conn' = IF conn = "live" THEN "dead" ELSE conn
    /\ UNCHANGED <<cool, lock, qpc, qattempt, qcalls, handed, ok_io, result,
                   opened, qunused>>

\* The link of the open connection is lost while the broker stays reachable.
LinkLost ==
    /\ broker = "up"
    /\ conn = "live"
    /\ conn' = "dead"
    /\ UNCHANGED <<broker, cool, lock, qpc, qattempt, qcalls, handed, ok_io,
                   result, opened, qunused>>

\* The broker comes back and stays.
BrokerUp ==
    /\ broker = "down"
    /\ broker' = "recovered"
    /\ UNCHANGED <<conn, cool, lock, qpc, qattempt, qcalls, handed, ok_io,
                   result, opened, qunused>>

\* reconnect_cooldown has passed since last_reconnect_attempt.
CooldownOver ==
    /\ cool
    /\ cool' = FALSE
    /\ UNCHANGED <<broker, conn, lock, qpc, qattempt, qcalls, handed, ok_io,
                   result, opened, qunused>>

\* A thread calls publish(doc).
StartPublish(t) ==
    /\ qpc[t] = "idle"
    /\ qcalls[t] < MaxCalls
    /\ qcalls' = [qcalls EXCEPT ![t] = qcalls[t] + 1]
    /\ qattempt' = [qattempt EXCEPT ![t] = 0]
    /\ handed' = [handed EXCEPT ![t] = 0]
    /\ ok_io' = [ok_io EXCEPT ![t] = FALSE]
    /\ result' = [result EXCEPT ![t] = "none"]
    /\ qpc' = [qpc EXCEPT ![t] = "ensure"]
    /\ UNCHANGED <<broker, conn, cool, lock, opened, qunused>>

\* A thread at here takes self.lock and goes on to there.
Enter(t, here, there) ==
    /\ qpc[t] = here
    /\ CanAcquire(t)
    /\ lock' = t
    /\ qpc' = [qpc EXCEPT ![t] = there]
    /\ UNCHANGED <<broker, conn, cool, qattempt, qcalls, handed, ok_io, result,
                   opened, qunused>>

\* This attempt of publish has failed: return False after the last attempt,
\* else go round the loop.
AttemptFailed(t) ==
    IF LastAttempt(qattempt[t])
    THEN /\ result' = [result EXCEPT ![t] = "false"]
         /\ qpc' = [qpc EXCEPT ![t] = "idle"]
         /\ UNCHANGED qattempt
    ELSE /\ qattempt' = [qattempt EXCEPT ![t] = qattempt[t] + 1]
         /\ qpc' = [qpc EXCEPT ![t] = "ensure"]
         /\ UNCHANGED result

\* ensure_connection, entered.
EnsureEnter(t) == Enter(t, "ensure", "ensure_locked")

\* ensure_connection under the lock: with no open connection, False in the
\* cooldown and connect() otherwise; with one, process_data_events, and
\* connect() when that raises.  publish goes on or counts a failed attempt.
EnsureBody(t) ==
    /\ qpc[t] = "ensure_locked"
    /\ lock' = NoThread
    /\ LET skip == conn \in {"none", "closed"} /\ cool
           healthy == conn = "live"
           ensured == healthy \/ (~skip /\ ConnectSucceeds)
       IN /\ conn' = IF healthy \/ skip THEN conn ELSE AfterConnect
          /\ cool' = IF healthy \/ skip THEN cool ELSE (ConnectSucceeds \/ cool)
          /\ opened' = IF ~healthy /\ ~skip /\ ConnectSucceeds
                        THEN OpenedAfterConnect ELSE opened
          /\ IF ensured
             THEN /\ qpc' = [qpc EXCEPT ![t] = "publish"]
                  /\ UNCHANGED <<qattempt, result>>
             ELSE AttemptFailed(t)
    /\ UNCHANGED <<broker, qcalls, handed, ok_io, qunused>>

\* publish's with-block, entered.
PublishEnter(t) == Enter(t, "publish", "publish_locked")

\* basic_publish and process_data_events under the lock.  On a live
\* connection both return and publish returns True.  On a dead one either
\* basic_publish raises or it returns and process_data_events raises; with
\* no channel or a closed one basic_publish raises.  An exception leaves the
\* with-block for a handler.
PublishBody(t, accepted) ==
    /\ qpc[t] = "publish_locked"
    /\ lock' = NoThread
    /\ IF conn = "live"
       THEN /\ handed' = [handed EXCEPT ![t] = handed[t] + 1]
            /\ ok_io' = [ok_io EXCEPT ![t] = TRUE]
            /\ result' = [result EXCEPT ![t] = "true"]
            /\ qpc' = [qpc EXCEPT ![t] = "idle"]
            /\ conn' = conn
       ELSE /\ handed' = IF conn = "dead" /\ accepted
                         THEN [handed EXCEPT ![t] = handed[t] + 1] ELSE handed
            /\ conn' = IF conn = "dead" THEN "closed" ELSE conn
            /\ qpc' = [qpc EXCEPT ![t] = "reset"]
            /\ UNCHANGED <<ok_io, result>>
    /\ UNCHANGED <<broker, cool, qattempt, qcalls, opened, qunused>>

\* An except clause of publish, its with-block entered.
ResetEnter(t) == Enter(t, "reset", "reset_locked")

\* The except clause under the lock: self.connection = None and
\* self.channel = None; then the attempt has failed.
ResetBody(t) ==
    /\ qpc[t] = "reset_locked"
    /\ lock' = NoThread
    /\ conn' = "none"
    /\ AttemptFailed(t)
    /\ UNCHANGED <<broker, cool, qcalls, handed, ok_io, opened, qunused>>

\* heartbeat_task, its with-block entered.
HeartbeatEnter == Enter(HeartbeatThread, "hb", "hb_locked")

\* The same, where the heartbeat keeps to the cooldown of ensure_connection.
HeartbeatBody_cooling ==
    /\ qpc[HeartbeatThread] = "hb_locked"
    /\ lock' = NoThread
    /\ qpc' = [qpc EXCEPT ![HeartbeatThread] = "hb"]
    /\ conn' = IF conn = "live" \/ cool THEN conn ELSE AfterConnect
    /\ cool' = IF conn = "live" THEN cool ELSE (ConnectSucceeds \/ cool)
    /\ opened' = IF conn # "live" /\ ~cool /\ ConnectSucceeds
                  THEN OpenedAfterConnect ELSE opened
    /\ UNCHANGED <<broker, qattempt, qcalls, handed, ok_io, result, qunused>>

\* heartbeat_task under the lock: process_data_events on an open connection
\* and connect() when it raises; connect() when there is none or it is closed.
HeartbeatBody ==
    /\ qpc[HeartbeatThread] = "hb_locked"
    /\ lock' = NoThread
    /\ qpc' = [qpc EXCEPT ![HeartbeatThread] = "hb"]
    /\ conn' = IF conn = "live" THEN conn ELSE AfterConnect
    /\ cool' = IF conn = "live" THEN cool ELSE (ConnectSucceeds \/ cool)
    /\ opened' = IF conn # "live" /\ ConnectSucceeds THEN OpenedAfterConnect ELSE opened
    /\ UNCHANGED <<broker, qattempt, qcalls, handed, ok_io, result, qunused>>

NextPublisher ==
    \/ BrokerDown
    \/ BrokerUp
    \/ LinkLost
    \/ CooldownOver
    \/ \E t \in Publishers : StartPublish(t)
    \/ \E t \in Publishers : EnsureEnter(t)
    \/ \E t \in Publishers : EnsureBody(t)
    \/ \E t \in Publishers : PublishEnter(t)
    \/ \E t \in Publishers, accepted \in BOOLEAN : PublishBody(t, accepted)
    \/ \E t \in Publishers : ResetEnter(t)
    \/ \E t \in Publishers : ResetBody(t)
    \/ HeartbeatEnter
    \/ HeartbeatBody

SpecPublisher == InitPublisher /\ [][NextPublisher]_vars

\* The threads are scheduled: the heartbeat thread takes the lock when it is
\* free and goes through its with-block, and a publisher that holds the lock
\* goes through the block it is in.  time.sleep in the heartbeat loop returns.
FairPublisher ==
    /\ WF_vars(HeartbeatEnter)
    /\ WF_vars(HeartbeatBody)
    /\ \A t \in Publishers :
           WF_vars(EnsureBody(t) \/ ResetBody(t)
                   \/ \E accepted \in BOOLEAN : PublishBody(t, accepted))

SpecPublisherFair == InitPublisher /\ [][NextPublisher]_vars /\ FairPublisher

\* ------------------------------------------- backend, sync_blocks by batches
\* The highest best block followed.
MaxBest == 8

\* MIN_BLOCK_HEIGHT, brought down to the heights followed.
MIN_BLOCK_HEIGHT == 2

\* sync_range's batch_size.
batch_size == 5

max(a, b) == IF a >= b THEN a ELSE b

\* list(range(start, stop, -step)) for a positive step.
RECURSIVE range_down(_, _, _)
range_down(start, stop, step) ==
    IF start > stop THEN <<start>> \o range_down(start - step, stop, step) ELSE <<>>

\* A batch that ends one height lower than sync_range's and so overlaps the
\* next one.
batch_end_overlap(batch_start, end_height) ==
    max(batch_start - batch_size, end_height)

\* batch_end of sync_range.
batch_end(batch_start, end_height) ==
    max(batch_start - batch_size + 1, end_height)

\* The heights of the batches that begin at starts, in the order visited.
RECURSIVE Batches(_, _)
Batches(starts, end_height) ==
    IF starts = <<>> THEN <<>>
    ELSE range_down(Head(starts), batch_end(Head(starts), end_height) - 1, 1)
             \o Batches(Tail(starts), end_height)

\* The heights sync_range(start_height, end_height) visits, in order.
sync_range(start_height, end_height) ==
    Batches(range_down(start_height, end_height - 1, batch_size), end_height)

\* The heights of the documents of db.blocks.
Heights(bs) == {bs[i].height : i \in 1..Len(bs)}

\* find_one(sort=[("height", -1)]) and find_one(sort=[("height", 1)]): the
\* height found, 0 for None.
highest_processed(bs) ==
    IF bs = <<>> THEN 0 ELSE CHOOSE h \in Heights(bs) : \A g \in Heights(bs) : g <= h
lowest_processed(bs) ==
    IF bs = <<>> THEN 0 ELSE CHOOSE h \in Heights(bs) : \A g \in Heights(bs) : h <= g

\* missing_blocks: the heights from MIN_BLOCK_HEIGHT up to lowest - 1 with no
\* document, ascending.
missing_blocks(bs, lowest) ==
    LET expected == [i \in 1..max(lowest - MIN_BLOCK_HEIGHT, 0) |-> MIN_BLOCK_HEIGHT + i - 1]
        Missing(h) == h \notin Heights(bs)
    IN SelectSeq(expected, Missing)

\* What no step of the sync changes.
sunused == <<pools, pool_definitions_hash, reindexing, rpc, rcur, nloads,
             benv, fvars, qvars, cvars>>

\* The service has started on an empty store; the node's best block is at
\* best_height.
InitSync ==
    /\ CollectorOff
    /\ blocks = <<>>
    /\ pools \in RuleSets
    /\ pool_definitions_hash = pools
    /\ reindexing = FALSE
    /\ rpc = [t \in ReindexThreads |-> "idle"]
    /\ rcur = [t \in ReindexThreads |-> 0]
    /\ spc = "start"
    /\ sheight = 0
    /\ nlive = 0
    /\ nloads = 0
    /\ bev = NoBlockEvent
    /\ quiet = [t \in ReindexThreads |-> FALSE]
    /\ settled = FALSE
    /\ again = {}
    /\ local_file = <<>>
    /\ RpcPoolOff
    /\ FunctionOff
    /\ PublisherOff
    /\ best_height \in 1..MaxBest
    /\ lowest_processed_height = -1
    /\ highest_processed_height = -1
    /\ todo = <<>>
    /\ requested = <<>>
    /\ failed = FALSE

\* The same, where the first loop goes down to the height above the lowest
\* stored one.
sync_blocks_from_lowest(rpc_ok) ==
    /\ spc = "start"
    /\ IF rpc_ok
       THEN LET highest == highest_processed(blocks)
            IN /\ lowest_processed_height' = lowest_processed(blocks)
               /\ highest_processed_height' = highest
               /\ todo' = IF highest # 0 /\ highest < best_height
                             THEN sync_range(best_height, lowest_processed(blocks) + 1)
                          ELSE IF highest = 0
                             THEN sync_range(best_height, MIN_BLOCK_HEIGHT)
                          ELSE <<>>
               /\ spc' = "range"
               /\ failed' = failed
       ELSE /\ spc' = "done"
            /\ failed' = TRUE
            /\ UNCHANGED <<lowest_processed_height, highest_processed_height, todo>>
    /\ UNCHANGED <<blocks, bev, quiet, settled, again, sheight, nlive,
                   best_height, requested, sunused>>

\* sync_blocks up to its first loop: the best block and the highest and
\* lowest stored heights are read and the range to fetch is chosen.  An
\* exception of the two RPC calls ends the sync.
sync_blocks(rpc_ok) ==
    /\ spc = "start"
    /\ IF rpc_ok
       THEN LET highest == highest_processed(blocks)
            IN /\ lowest_processed_height' = lowest_processed(blocks)
               /\ highest_processed_height' = highest
               /\ todo' = IF highest # 0 /\ highest < best_height
                             THEN sync_range(best_height, highest + 1)
                          ELSE IF highest = 0
                             THEN sync_range(best_height, MIN_BLOCK_HEIGHT)
                          ELSE <<>>
               /\ spc' = "range"
               /\ failed' = failed
       ELSE /\ spc' = "done"
            /\ failed' = TRUE
            /\ UNCHANGED <<lowest_processed_height, highest_processed_height, todo>>
    /\ UNCHANGED <<blocks, bev, quiet, settled, again, sheight, nlive,
                   best_height, requested, sunused>>

\* sync_range at one height, up to the existence check: getblockhash is
\* asked for the height; its exception, or a document at this height, moves
\* on to the next height.
sync_range_check(rpc_ok) ==
    /\ spc = "range"
    /\ todo # <<>>
    /\ requested' = Append(requested, Head(todo))
    /\ sheight' = Head(todo)
    /\ IF ~rpc_ok
       THEN /\ failed' = TRUE
            /\ todo' = Tail(todo)
            /\ spc' = spc
       ELSE IF Head(todo) \in Heights(blocks)
       THEN /\ todo' = Tail(todo)
            /\ UNCHANGED <<failed, spc>>
       ELSE /\ spc' = "process"
            /\ UNCHANGED <<failed, todo>>
    /\ UNCHANGED <<blocks, bev, quiet, settled, again, nlive, best_height,
                   lowest_processed_height, highest_processed_height, sunused>>

\* sync_range at one height, after the check: process_block(block_hash, False).
sync_range_process(rpc_ok, store_ok) ==
    /\ spc = "process"
    /\ process_block(sheight, FALSE, rpc_ok, store_ok)
    /\ failed' = (failed \/ ~(rpc_ok /\ store_ok))
    /\ todo' = Tail(todo)
    /\ spc' = "range"
    /\ UNCHANGED <<sheight, nlive, best_height, lowest_processed_height,
                   highest_processed_height,
                   requested, sunused>>

\* sync_blocks after its first loop: with a lowest stored height above
\* MIN_BLOCK_HEIGHT the missing heights below it are listed (fewer than a
\* hundred within MaxBest); else the sync is complete.
sync_missing ==
    /\ spc = "range"
    /\ todo = <<>>
    /\ LET missing == IF lowest_processed_height > MIN_BLOCK_HEIGHT
                      THEN missing_blocks(blocks, lowest_processed_height)
                      ELSE <<>>
       IN /\ todo' = missing
          /\ spc' = IF missing = <<>> THEN "done" ELSE "missing"
    /\ UNCHANGED <<blocks, bev, quiet, settled, again, sheight, nlive,
                   best_height, lowest_processed_height, highest_processed_height,
                   requested, failed,
                   sunused>>

\* One missing height: getblockhash and process_block(block_hash, False),
\* with no check for a document in between.
sync_missing_block(hash_ok, rpc_ok, store_ok) ==
    /\ spc = "missing"
    /\ todo # <<>>
    /\ requested' = Append(requested, Head(todo))
    /\ sheight' = Head(todo)
    /\ IF hash_ok
       THEN process_block(Head(todo), FALSE, rpc_ok, store_ok)
       ELSE /\ bev' = NoBlockEvent
            /\ UNCHANGED <<blocks, quiet, settled, again>>
    /\ failed' = (failed \/ ~(hash_ok /\ rpc_ok /\ store_ok))
    /\ todo' = Tail(todo)
    /\ spc' = IF Tail(todo) = <<>> THEN "done" ELSE "missing"
    /\ UNCHANGED <<nlive, best_height, lowest_processed_height,
                   highest_processed_height, sunused>>

\* The ZMQ listener receives the block mined on top of the best block and a
\* new-block worker runs process_block(bhash, True).
LiveTip(rpc_ok, store_ok) ==
    /\ nlive < MaxLive
    /\ nlive' = nlive + 1
    /\ process_block(best_height + 1, TRUE, rpc_ok, store_ok)
    /\ UNCHANGED <<spc, sheight, svars, sunused>>

NextSync ==
    \/ \E rpc_ok \in BOOLEAN : sync_blocks(rpc_ok)
    \/ \E rpc_ok \in BOOLEAN : sync_range_check(rpc_ok)
    \/ \E rpc_ok, store_ok \in BOOLEAN : sync_range_process(rpc_ok, store_ok)
    \/ sync_missing
    \/ \E hash_ok, rpc_ok, store_ok \in BOOLEAN : sync_missing_block(hash_ok, rpc_ok, store_ok)
    \/ \E rpc_ok, store_ok \in BOOLEAN : LiveTip(rpc_ok, store_ok)

SpecSync == InitSync /\ [][NextSync]_vars

\* ------------------------------------- backend, sync_blocks run after run
\* The documents in the store when the service starts.
MaxStored == 2

\* The sets of heights the store may hold at the start.
StoredSets ==
    {S \in SUBSET (MIN_BLOCK_HEIGHT..MaxBest) : S # {} /\ Cardinality(S) <= MaxStored}

\* The documents of the heights of S as process_block wrote them, ascending.
stored_docs(ps, S) ==
    LET nth(i) == CHOOSE h \in S : Cardinality({g \in S : g < h}) = i - 1
    IN [i \in 1..Cardinality(S) |->
           BlockDoc(nth(i), identify_pool(ps, ScriptOf(nth(i)), AddressesOf(nth(i))))]

\* What the steps of the runs leave alone.
backfill_unused == <<pools, pool_definitions_hash, reindexing, rpc, rcur, nloads,
                     nlive, benv, fvars, qvars, cvars>>

\* The service starts on a store that holds some blocks; the node's best
\* block is not below them.
InitBackfill ==
    /\ CollectorOff
    /\ pools = PoolsV1
    /\ \E S \in StoredSets :
           /\ blocks = stored_docs(pools, S)
           /\ best_height \in {b \in 1..MaxBest : \A h \in S : h <= b}
    /\ pool_definitions_hash = pools
    /\ reindexing = FALSE
    /\ rpc = [t \in ReindexThreads |-> "idle"]
    /\ rcur = [t \in ReindexThreads |-> 0]
    /\ spc = "start"
    /\ sheight = 0
    /\ nlive = 0
    /\ nloads = 0
    /\ bev = NoBlockEvent
    /\ quiet = [t \in ReindexThreads |-> FALSE]
    /\ settled = FALSE
    /\ again = {}
    /\ local_file = <<>>
    /\ RpcPoolOff
    /\ FunctionOff
    /\ PublisherOff
    /\ lowest_processed_height = -1
    /\ highest_processed_height = -1
    /\ todo = <<>>
    /\ requested = <<>>
    /\ failed = FALSE

\* The service is started again after sync_blocks has returned: the sync
\* thread runs sync_blocks anew, the node's best block being at b.
Restart(b) ==
    /\ spc = "done"
    /\ b >= best_height
    /\ spc' = "start"
    /\ best_height' = b
    /\ lowest_processed_height' = -1
    /\ highest_processed_height' = -1
    /\ todo' = <<>>
    /\ requested' = <<>>
    /\ failed' = FALSE
    /\ sheight' = 0
    /\ bev' = NoBlockEvent
    /\ UNCHANGED <<blocks, quiet, settled, again, backfill_unused>>

NextBackfill ==
    \/ \E rpc_ok \in BOOLEAN : sync_blocks(rpc_ok)
    \/ \E rpc_ok \in BOOLEAN : sync_range_check(rpc_ok)
    \/ \E rpc_ok, store_ok \in BOOLEAN : sync_range_process(rpc_ok, store_ok)
    \/ sync_missing
    \/ \E hash_ok, rpc_ok, store_ok \in BOOLEAN : sync_missing_block(hash_ok, rpc_ok, store_ok)
    \/ \E b \in 1..MaxBest : Restart(b)

SpecBackfill == InitBackfill /\ [][NextBackfill]_vars

\* ------------------------------------- backend, reindex_blocks under faults
\* reprocess_block_pool_info raises inside its try block, at find_one, at
\* update_one or at the publish: the exception is logged there and the loop
\* of reindex_blocks goes on with the next document.
ReindexBlockRaises(t) ==
    /\ rpc[t] = "loop"
    /\ rcur[t] <= Len(blocks)
    /\ rcur' = [rcur EXCEPT ![t] = rcur[t] + 1]
    /\ quiet' = [quiet EXCEPT ![t] = FALSE]
    /\ bev' = NoBlockEvent
    /\ UNCHANGED <<blocks, pools, pool_definitions_hash, reindexing, rpc, spc,
                   sheight, nlive, nloads, settled, again, brest, cvars>>

\* The same as ReindexRaises, without the finally clause.
ReindexRaises_no_finally(t) ==
    /\ rpc[t] = "loop"
    /\ rcur[t] <= Len(blocks)
    /\ rpc' = [rpc EXCEPT ![t] = "idle"]
    /\ settled' = FALSE
    /\ quiet' = [quiet EXCEPT ![t] = FALSE]
    /\ again' = again \ {t}
    /\ bev' = NoBlockEvent
    /\ UNCHANGED <<blocks, pools, pool_definitions_hash, reindexing, rcur, spc,
                   sheight, nlive, nloads, brest, cvars>>

\* The cursor over db.blocks raises while reindex_blocks reads the next
\* document: the except clause logs and the finally clause clears the flag.
\* rcur keeps the place the run had come to.
ReindexRaises(t) ==
    /\ rpc[t] = "loop"
    /\ rcur[t] <= Len(blocks)
    /\ reindexing' = FALSE
    /\ rpc' = [rpc EXCEPT ![t] = "idle"]
    /\ settled' = FALSE
    /\ quiet' = [quiet EXCEPT ![t] = FALSE]
    /\ again' = again \ {t}
    /\ bev' = NoBlockEvent
    /\ UNCHANGED <<blocks, pools, pool_definitions_hash, rcur, spc, sheight,
                   nlive, nloads, brest, cvars>>

\* The backfill has ended with two blocks in the store, identified by the
\* rules then loaded; the updater loads the definitions again and again.
InitReindex ==
    /\ CollectorOff
    /\ pools \in RuleSets
    /\ blocks = stored_docs(pools, {MIN_BLOCK_HEIGHT, MIN_BLOCK_HEIGHT + 1})
    /\ pool_definitions_hash = pools
    /\ reindexing = FALSE
    /\ rpc = [t \in ReindexThreads |-> "idle"]
    /\ rcur = [t \in ReindexThreads |-> 0]
    /\ spc = "done"
    /\ sheight = 0
    /\ nlive = 0
    /\ nloads = 0
    /\ bev = NoBlockEvent
    /\ quiet = [t \in ReindexThreads |-> FALSE]
    /\ settled = FALSE
    /\ again = {}
    /\ local_file = <<>>
    /\ RpcPoolOff
    /\ FunctionOff
    /\ PublisherOff
    /\ SyncOff

\* The updater and the reindex threads, where the store may fail under a run.
NextReindex ==
    \/ \E new_pools \in RuleSets : LoadPools(new_pools)
    \/ \E t \in ReindexThreads : ReindexCheck(t)
    \/ \E t \in ReindexThreads : ReindexSet(t)
    \/ \E t \in ReindexThreads : ReindexBlock(t)
    \/ \E t \in ReindexThreads : ReindexFinish(t)
    \/ \E t \in ReindexThreads : ReindexBlockRaises(t)
    \/ \E t \in ReindexThreads : ReindexRaises(t)

\* A reindex thread that has been started runs: it passes the test of the
\* flag, and each step of its loop returns or raises.
FairReindex ==
    \A t \in ReindexThreads :
        WF_vars(ReindexCheck(t) \/ ReindexSet(t) \/ ReindexBlock(t)
                \/ ReindexFinish(t))

SpecReindex == InitReindex /\ [][NextReindex]_vars /\ FairReindex

\* --------------------------------------- backend, analyze_prev_hash_divergence
\* Templates in one call.
MaxTemplates == 3

\* prev_hash values (as text) and pool names a template may carry.
SomePrevHashes == {<<>>, <<"A">>, <<"a">>, <<"b">>}
SomeNames == {"P", "Q"}

\* The pool names followed, in the order python's sorted() gives strings.
NameOrder == <<"P", "Q", "unknown">>

\* Templates with both fields, without prev_hash, and without pool_name.
SomeTemplates ==
    {[prev_hash |-> p, pool_name |-> n] : p \in SomePrevHashes, n \in SomeNames}
        \cup {[pool_name |-> n] : n \in SomeNames}
        \cup {[prev_hash |-> p] : p \in SomePrevHashes}

TemplateLists == UNION {[1..n -> SomeTemplates] : n \in 0..MaxTemplates}

\* str(t.get("prev_hash", "")).lower()
prev_of(t) == LowerText(GetOr(t, "prev_hash", <<>>))

\* str(t.get("pool_name", "unknown"))
pool_of(t) == GetOr(t, "pool_name", "unknown")

\* The keys of a dict filled from seq, in the order of insertion.
RECURSIVE first_seen(_, _)
first_seen(seq, seen) ==
    IF seq = <<>> THEN <<>>
    ELSE IF Head(seq) \in seen THEN first_seen(Tail(seq), seen)
    ELSE <<Head(seq)>> \o first_seen(Tail(seq), seen \cup {Head(seq)})

\* The pool list as appended, unsorted and with its duplicates.
group_pools_raw(v) == v

\* sorted(list(set(v)))
group_pools(v) ==
    LET InV(n) == \E i \in 1..Len(v) : v[i] = n
    IN SelectSeq(NameOrder, InV)

\* analyze_prev_hash_divergence(templates, logger), EmptyDict for None.
analyze_prev_hash_divergence(templates) ==
    LET HasPrev(t) == prev_of(t) # <<>>
        kept == SelectSeq(templates, HasPrev)
        keys == first_seen([i \in 1..Len(kept) |-> prev_of(kept[i])], {})
        PoolsAt(k) ==
            LET At(t) == prev_of(t) = k
                ts == SelectSeq(kept, At)
            IN [i \in 1..Len(ts) |-> pool_of(ts[i])]
    IN IF Len(keys) <= 1 THEN EmptyDict
       ELSE [key |-> "prev_hash_fork",
             icon |-> "fork",
             details |-> [groups |-> [i \in 1..Len(keys) |->
                 [prev_hash |-> keys[i], pools |-> group_pools(PoolsAt(keys[i]))]]]]

InitDivergence ==
    /\ OnlyFunction
    /\ fpc = "ready"
    /\ fin \in [templates : TemplateLists]
    /\ fout = <<>>

\* analyze_prev_hash_divergence is called on the templates of a height.
DivergenceCall == Return(analyze_prev_hash_divergence(fin.templates))

NextDivergence == DivergenceCall

SpecDivergence == InitDivergence /\ [][NextDivergence]_vars

\* --------------------------------------------- backend, get_block_subsidy_sats
\* Amounts in satoshis are pairs <<q, r>> standing for q * 100000 + r with
\* r below 100000.
\* The halving periods followed.
MaxHalvings == 65

\* Blocks between two halvings.
halving_interval == 210000

\* base = 50 * 100_000_000
base == <<50000, 0>>

\* An amount shifted right by k bits, k at most 14.
shift_some(x, k) ==
    <<x[1] \div 2^k, ((x[1] % 2^k) * 100000 + x[2]) \div 2^k>>

\* x >> n, fourteen bits at a time.
RECURSIVE shift_right(_, _)
shift_right(x, n) ==
    IF n <= 14 THEN shift_some(x, n) ELSE shift_right(shift_some(x, 14), n - 14)

\* A cut that comes 32 halvings early.
no_subsidy_early(halvings) == halvings >= 32

\* halvings >= 64
no_subsidy(halvings) == halvings >= 64

get_block_subsidy_sats(height) ==
    LET halvings == height \div halving_interval
    IN IF no_subsidy(halvings) THEN <<0, 0>> ELSE shift_right(base, halvings)

\* The first, the second and the last height of each halving period.
SomeHeights ==
    {k * halving_interval + d : k \in 0..MaxHalvings, d \in {0, 1, halving_interval - 1}}

InitSubsidy ==
    /\ OnlyFunction
    /\ fpc = "ready"
    /\ fin \in [height : SomeHeights]
    /\ fout = <<>>

\* get_block_subsidy_sats is called on the height.
SubsidyCall == Return(get_block_subsidy_sats(fin.height))

NextSubsidy == SubsidyCall

SpecSubsidy == InitSubsidy /\ [][NextSubsidy]_vars

\* ------------------------- backend, analyze_invalid_coinbase_without_merkle
\* Templates in one call.
MaxOffered == 2

\* The parts of a serialized transaction: what comes before the outputs,
\* one output of some satoshis, and bytes that are no transaction.
Before == [kind |-> "in", value |-> 0]
Output(v) == [kind |-> "out", value |-> v]
Garbage == [kind |-> "bad", value |-> 0]

\* coinbase2 of a template: no output, one of 4, one of 3 and one of 2.
SomeOutputs == {<<>>, <<Output(4)>>, <<Output(3), Output(2)>>}

\* Templates with and without merkle branches, and one whose coinbase does
\* not parse.
SomeCoinbaseTemplates ==
    {[pool_name |-> n, merkle_branches |-> m, coinbase1 |-> <<Before>>,
      extranonce1 |-> <<Before>>, extranonce2_length |-> 1, coinbase2 |-> o] :
        n \in SomeNames, m \in {<<>>, <<"h">>}, o \in SomeOutputs}
    \cup {[pool_name |-> "P", merkle_branches |-> <<>>, coinbase1 |-> <<Garbage>>,
           extranonce1 |-> <<Before>>, extranonce2_length |-> 1,
           coinbase2 |-> <<Output(3), Output(2)>>]}

CoinbaseTemplateLists == UNION {[1..n -> SomeCoinbaseTemplates] : n \in 0..MaxOffered}

\* Heights with a subsidy of 5,000,000,000, of 4, of 2 and of 0 satoshis.
CoinbaseHeights ==
    {0, 30 * halving_interval, 31 * halving_interval, 64 * halving_interval}

\* coinbase1 + extranonce1 + '00' * extranonce2_length + coinbase2
reconstruct_coinbase_raw(coinbase1, extranonce1, extranonce2_length, coinbase2) ==
    coinbase1 \o extranonce1 \o [i \in 1..extranonce2_length |-> Before] \o coinbase2

\* The sum of the values of the outputs of parts.
RECURSIVE total_of(_)
total_of(parts) ==
    IF parts = <<>> THEN 0
    ELSE (IF Head(parts).kind = "out" THEN Head(parts).value ELSE 0) + total_of(Tail(parts))

\* parse_tx_total_output_value_sats: 0 when the bytes do not deserialize.
parse_tx_total_output_value_sats(raw) ==
    IF \E i \in 1..Len(raw) : raw[i].kind = "bad" THEN 0 ELSE total_of(raw)

\* total >= subsidy, for a total below 100000.
exceeds_or_equals(total, subsidy) == subsidy[1] = 0 /\ total >= subsidy[2]

\* total > subsidy, for a total below 100000.
exceeds(total, subsidy) == subsidy[1] = 0 /\ total > subsidy[2]

\* analyze_invalid_coinbase_without_merkle(templates, height, logger),
\* EmptyDict for None.
analyze_invalid_coinbase_without_merkle(templates, height) ==
    LET subsidy == get_block_subsidy_sats(height)
        Total(t) ==
            parse_tx_total_output_value_sats(
                reconstruct_coinbase_raw(t.coinbase1, t.extranonce1,
                                         t.extranonce2_length, t.coinbase2))
        Offends(t) ==
            /\ Len(GetOr(t, "merkle_branches", <<>>)) = 0
            /\ exceeds(Total(t), subsidy)
        found == SelectSeq(templates, Offends)
        offenders == [i \in 1..Len(found) |->
                         [pool_name |-> GetOr(found[i], "pool_name", "unknown"),
                          total_sats |-> Total(found[i]),
                          subsidy_sats |-> subsidy]]
    IN IF offenders = <<>> THEN EmptyDict
       ELSE [key |-> "invalid_coinbase_no_merkle",
             icon |-> "error",
             details |-> [offenders |-> offenders]]

InitCoinbase ==
    /\ OnlyFunction
    /\ fpc = "ready"
    /\ fin \in [templates : CoinbaseTemplateLists, height : CoinbaseHeights]
    /\ fout = <<>>

\* analyze_invalid_coinbase_without_merkle is called on the templates of a
\* height.
CoinbaseCall == Return(analyze_invalid_coinbase_without_merkle(fin.templates, fin.height))

NextCoinbase == CoinbaseCall

SpecCoinbase == InitCoinbase /\ [][NextCoinbase]_vars

\* ------------------------------------------------ backend, extract_coinbase_data
\* Outputs of a coinbase transaction.
MaxOutputs == 3

\* Outputs paying one address, one paying two (an old node's addresses
\* array), and one paying none.
SomeVouts ==
    {[scriptPubKey |-> [address |-> a], value |-> v] : a \in {"X", "Y"}, v \in {1, 2}}
        \cup {[scriptPubKey |-> [addresses |-> <<"X", "Y">>], value |-> 1]}
        \cup {[scriptPubKey |-> [type |-> "nulldata"], value |-> 0]}

VoutLists == UNION {[1..n -> SomeVouts] : n \in 0..MaxOutputs}

\* The addresses one output adds to coinbase_addresses.
vout_addresses(vo) ==
    LET script_pub_key == GetOr(vo, "scriptPubKey", EmptyDict)
    IN IF "addresses" \in DOMAIN script_pub_key THEN script_pub_key["addresses"]
       ELSE IF "address" \in DOMAIN script_pub_key THEN <<script_pub_key["address"]>>
       ELSE <<>>

\* coinbase_addresses before the sort: every output's addresses, appended.
RECURSIVE listed_addresses(_)
listed_addresses(vout) ==
    IF vout = <<>> THEN <<>>
    ELSE vout_addresses(Head(vout)) \o listed_addresses(Tail(vout))

\* address_values.get(addr, 0): the sum of the values of the outputs that
\* name addr, once for each time they name it.
RECURSIVE address_value(_, _)
address_value(vout, addr) ==
    IF vout = <<>> THEN 0
    ELSE LET names == vout_addresses(Head(vout))
             times == Cardinality({i \in 1..Len(names) : names[i] = addr})
         IN times * GetOr(Head(vout), "value", 0) + address_value(Tail(vout), addr)

\* list with item put behind every element whose value is not below its own.
insert_by_value(list, item, vout) ==
    LET behind == {i \in 1..Len(list) :
                      address_value(vout, list[i]) >= address_value(vout, item)}
        n == IF behind = {} THEN 0 ELSE CHOOSE i \in behind : \A k \in behind : k <= i
    IN SubSeq(list, 1, n) \o <<item>> \o SubSeq(list, n + 1, Len(list))

\* sorted(list, key=lambda addr: address_values.get(addr, 0), reverse=True):
\* stable, equal values keep their order.
RECURSIVE sorted_reverse(_, _)
sorted_reverse(list, vout) ==
    IF list = <<>> THEN <<>>
    ELSE insert_by_value(sorted_reverse(SubSeq(list, 1, Len(list) - 1), vout),
                         list[Len(list)], vout)

\* The address list extract_coinbase_data returns for the outputs vout.
extract_coinbase_data(vout) == sorted_reverse(listed_addresses(vout), vout)

InitCoinbaseData ==
    /\ OnlyFunction
    /\ fpc = "ready"
    /\ fin \in [vout : VoutLists]
    /\ fout = <<>>

\* extract_coinbase_data is called on a block with the coinbase outputs vout.
CoinbaseDataCall == Return(extract_coinbase_data(fin.vout))

NextCoinbaseData == CoinbaseDataCall

SpecCoinbaseData == InitCoinbaseData /\ [][NextCoinbaseData]_vars

\* ------------------------------------------- coinbase reconstruction, as hex
\* The highest extranonce2_length followed.
MaxFill == 1

\* Hex texts, as sequences of digits.
HexTexts == {<<>>, <<"0">>, <<"a">>, <<"0", "0">>}

\* The arguments of one reconstruction.
CoinbaseParts ==
    [coinbase1 : HexTexts, extranonce1 : HexTexts, extranonce2_length : 0..MaxFill,
     coinbase2 : HexTexts]

\* "00" * extranonce2_length
RECURSIVE zeros(_)
zeros(n) == IF n = 0 THEN <<>> ELSE <<"0", "0">> \o zeros(n - 1)

\* A reconstruction that leaves coinbase2 out.
coinbase_hex_cut(coinbase1, extranonce1, extranonce2_length, coinbase2) ==
    coinbase1 \o extranonce1 \o zeros(extranonce2_length)

\* coinbase1 + extranonce1 + "00" * extranonce2_length + coinbase2
coinbase_hex(coinbase1, extranonce1, extranonce2_length, coinbase2) ==
    coinbase1 \o extranonce1 \o zeros(extranonce2_length) \o coinbase2

InitReconstruct ==
    /\ OnlyFunction
    /\ fpc = "ready"
    /\ fin \in [a : CoinbaseParts, b : CoinbaseParts]
    /\ fout = <<>>

\* Two templates are reconstructed.
ReconstructCall ==
    Return(<<coinbase_hex(fin.a.coinbase1, fin.a.extranonce1,
                          fin.a.extranonce2_length, fin.a.coinbase2),
             coinbase_hex(fin.b.coinbase1, fin.b.extranonce1,
                          fin.b.extranonce2_length, fin.b.coinbase2)>>)

NextReconstruct == ReconstructCall

SpecReconstruct == InitReconstruct /\ [][NextReconstruct]_vars

\* --------------------------------------- collector, height of a notification
\* The longest height push followed.
MaxPush == 5

\* Coinbase input scripts: the push length n, n bytes of height, each 0 or
\* 1, and one more byte.
SomeInputScripts ==
    UNION {{<<n>> \o pushed \o <<1>> : pushed \in [1..n -> {0, 1}]} : n \in 1..MaxPush}

\* script[lo:hi] of python, for 0 <= lo <= hi.
slice(script, lo, hi) ==
    SubSeq(script, lo + 1, IF hi < Len(script) THEN hi ELSE Len(script))

\* int.from_bytes(bytes, byteorder='little')
RECURSIVE from_bytes_little(_)
from_bytes_little(bytes) ==
    IF bytes = <<>> THEN 0 ELSE Head(bytes) + 256 * from_bytes_little(Tail(bytes))

\* The height create_notification_document stores for a coinbase that parses
\* and whose first input has this script.
notification_height(script) == from_bytes_little(slice(script, 1, 4))

InitHeight ==
    /\ OnlyFunction
    /\ fpc = "ready"
    /\ fin \in [script : SomeInputScripts]
    /\ fout = <<>>

\* create_notification_document computes the height of a template.
HeightCall == Return(notification_height(fin.script))

NextHeightCall == HeightCall

SpecHeight == InitHeight /\ [][NextHeightCall]_vars

\* ------------------------------------------------ the messages published
\* Job ids of the notifications followed.
MaxJobs == 3

\* The params of a mining.notify: job_id, prev_hash, coinbase1, coinbase2,
\* merkle_branches, version, nbits, ntime, clean_jobs.
SomeNotifyParams ==
    {<<j, <<"a">>, <<"0">>, <<"a">>, mb, "version", "nbits", "ntime", c>> :
        j \in 1..MaxJobs, mb \in {<<>>, <<"h">>}, c \in BOOLEAN}

\* create_notification_document; the coinbase texts followed are no
\* transaction, so that height stays 0.
create_notification_document(data, pool_name_, extranonce1_, extranonce2_length_, timestamp) ==
    [_id |-> "uuid4",
     timestamp |-> timestamp,
     pool_name |-> pool_name_,
     height |-> 0,
     job_id |-> data.params[1],
     prev_hash |-> data.params[2],
     coinbase1 |-> data.params[3],
     coinbase2 |-> data.params[4],
     merkle_branches |-> data.params[5],
     version |-> data.params[6],
     nbits |-> data.params[7],
     ntime |-> data.params[8],
     clean_jobs |-> data.params[9],
     extranonce1 |-> extranonce1_,
     extranonce2_length |-> extranonce2_length_]

\* The message get_stratum_work and run_proxy hand to publish_to_rabbitmq,
\* which sends json.dumps(message).
notify_message(data, pool_name_, extranonce2_length_) ==
    create_notification_document(data, pool_name_, <<"0">>, extranonce2_length_, "time_ns")

\* rabbitmq_doc of process_block for the block at height h.
block_message(h, ps) ==
    [type |-> "block",
     id |-> "uuid4",
     timestamp |-> "utcnow",
     data |-> [hash |-> HashOf(h),
               height |-> h,
               timestamp |-> "time",
               mining_pool |-> identify_pool(ps, ScriptOf(h), AddressesOf(h))]]

\* rabbitmq_doc of reprocess_block_pool_info for the block at height h.
reindex_message(h, ps) ==
    [type |-> "block",
     id |-> "uuid4",
     timestamp |-> "utcnow",
     data |-> BlockDoc(h, identify_pool(ps, ScriptOf(h), AddressesOf(h)))]

\* What is published, and by which path.
SomePublishes ==
    [path : {"notify"}, data : [method : {"mining.notify"}, params : SomeNotifyParams],
     pool_name : SomeNames, extranonce2_length : 0..MaxFill]
    \cup [path : {"block", "reindex"}, h : 1..MaxHeight, pools : RuleSets]

InitEnvelope ==
    /\ OnlyFunction
    /\ fpc = "ready"
    /\ fin \in SomePublishes
    /\ fout = <<>>

\* One of the publishing paths builds its message.
EnvelopeCall ==
    Return(CASE fin.path = "notify" ->
                    notify_message(fin.data, fin.pool_name, fin.extranonce2_length)
             [] fin.path = "block" -> block_message(fin.h, fin.pools)
             [] OTHER -> reindex_message(fin.h, fin.pools))

NextEnvelope == EnvelopeCall

SpecEnvelope == InitEnvelope /\ [][NextEnvelope]_vars

\* ------------------------------- pool identification, DATUM template creator
\* Characters are code points, as chr gives them; a text is their sequence.
MaxNames == 3

\* "ocean" and "datum", the markers looked for in a lowered name.
ocean_marker == <<111, 99, 101, 97, 110>>
datum_marker == <<100, 97, 116, 117, 109>>

\* str.lower on the characters of ASCII.
lower(text) ==
    [i \in 1..Len(text) |-> IF text[i] \in 65..90 THEN text[i] + 32 ELSE text[i]]

\* _is_ocean_pool: the lowered name, slug or id is "ocean".
is_ocean_pool(pool) ==
    \E k \in {"name", "slug", "id"} : lower(GetOr(pool, k, <<>>)) = ocean_marker

\* The bytes of a hex text, two digits to a byte and a last digit alone for
\* a byte of its own; a digit is given by its value.
bytes_of(script_digits) ==
    [i \in 1..((Len(script_digits) + 1) \div 2) |->
        IF 2 * i <= Len(script_digits)
        THEN 16 * script_digits[2 * i - 1] + script_digits[2 * i]
        ELSE script_digits[2 * i - 1]]

\* str.split on one character.
RECURSIVE split(_, _)
split(text, sep) ==
    IF \A i \in 1..Len(text) : text[i] # sep THEN <<text>>
    ELSE LET i == CHOOSE i \in 1..Len(text) :
                      text[i] = sep /\ \A k \in 1..(i - 1) : text[k] # sep
         IN <<SubSeq(text, 1, i - 1)>> \o split(SubSeq(text, i + 1, Len(text)), sep)

\* re.sub(r'[^a-zA-Z0-9 ]', '', part)
cleaned(part) ==
    SelectSeq(part, LAMBDA c : c \in 48..57 \/ c \in 65..90 \/ c \in 97..122 \/ c = 32)

\* str.strip of a cleaned part, where the space is the only white character.
strip(text) ==
    IF \A i \in 1..Len(text) : text[i] = 32 THEN <<>>
    ELSE LET inked == {i \in 1..Len(text) : text[i] # 32}
             first == CHOOSE i \in inked : \A k \in inked : i <= k
             last == CHOOSE i \in inked : \A k \in inked : k <= i
         IN SubSeq(text, first, last)

\* The names of the tag region whose length byte stands at index
\* tag_length_byte_idx, counted from 0: the region is clipped to the script,
\* NUL is removed, the text is split on 0x0F, each part is cleaned and
\* trimmed and the empty ones are dropped.
names_at(bytes_arr, tag_length_byte_idx) ==
    LET tags_length == bytes_arr[tag_length_byte_idx + 1]
        tag_start == tag_length_byte_idx + 1
        tag_end == IF tag_start + tags_length < Len(bytes_arr)
                   THEN tag_start + tags_length ELSE Len(bytes_arr)
        tag_string == SelectSeq(SubSeq(bytes_arr, tag_start + 1, tag_end),
                                LAMBDA b : b # 0)
        parts == split(tag_string, 15)
        names == [i \in 1..Len(parts) |-> strip(cleaned(parts[i]))]
    IN IF tag_start >= Len(bytes_arr) THEN <<>>
       ELSE SelectSeq(names, LAMBDA n : n # <<>>)

\* The same, where the byte after the height push is always the length.
parse_datum_template_creator_names_direct(script_digits) ==
    LET bytes_arr == bytes_of(script_digits)
    IN IF bytes_arr = <<>> THEN <<>>
       ELSE IF 1 + bytes_arr[1] >= Len(bytes_arr) THEN <<>>
       ELSE names_at(bytes_arr, 1 + bytes_arr[1])

\* _parse_datum_template_creator_names: the height push is skipped, and one
\* more byte where the length byte is OP_PUSHDATA1.
parse_datum_template_creator_names(script_digits) ==
    LET bytes_arr == bytes_of(script_digits)
    IN IF bytes_arr = <<>> THEN <<>>
       ELSE IF 1 + bytes_arr[1] >= Len(bytes_arr) THEN <<>>
       ELSE IF bytes_arr[2 + bytes_arr[1]] # 76
            THEN names_at(bytes_arr, 1 + bytes_arr[1])
       ELSE IF 2 + bytes_arr[1] >= Len(bytes_arr) THEN <<>>
       ELSE names_at(bytes_arr, 2 + bytes_arr[1])

\* The pool matched by address or by tag, with the last name that carries no
\* marker where the pool is OCEAN; an empty dict stays empty.
enriched(matched, coinbase_script_hex) ==
    IF DOMAIN matched = {} THEN matched
    ELSE IF ~is_ocean_pool(matched) THEN matched
    ELSE LET names == parse_datum_template_creator_names(coinbase_script_hex)
             free == {i \in 1..Len(names) :
                          /\ ~Contains(lower(names[i]), ocean_marker)
                          /\ ~Contains(lower(names[i]), datum_marker)}
         IN IF free = {} THEN matched
            ELSE matched @@
                 ("datum_template_creator" :>
                      names[CHOOSE i \in free : \A k \in free : k <= i])

\* The pools a match gives: OCEAN, another pool, none.
MatchedPools ==
    {[id |-> <<49>>, name |-> <<79, 67, 69, 65, 78>>, slug |-> ocean_marker],
     [id |-> <<50>>, name |-> <<66, 111, 98>>, slug |-> <<98, 111, 98>>],
     EmptyDict}

\* The parts a tag region is made of, each with the name it stands for:
\* OCEAN, Bob, Datum, a slash, a-NUL-l-slash, and Li between two spaces.
TagParts ==
    << [bytes |-> <<79, 67, 69, 65, 78>>, name |-> <<79, 67, 69, 65, 78>>, marker |-> TRUE],
       [bytes |-> <<66, 111, 98>>, name |-> <<66, 111, 98>>, marker |-> FALSE],
       [bytes |-> <<68, 97, 116, 117, 109>>, name |-> <<68, 97, 116, 117, 109>>, marker |-> TRUE],
       [bytes |-> <<47>>, name |-> <<>>, marker |-> FALSE],
       [bytes |-> <<97, 0, 108, 47>>, name |-> <<97, 108>>, marker |-> FALSE],
       [bytes |-> <<32, 76, 105, 32>>, name |-> <<76, 105>>, marker |-> FALSE] >>

\* The parts joined by 0x0F.
RECURSIVE tag_region(_)
tag_region(parts) ==
    IF parts = <<>> THEN <<>>
    ELSE IF Len(parts) = 1 THEN TagParts[parts[1]].bytes
    ELSE TagParts[parts[1]].bytes \o <<15>> \o tag_region(Tail(parts))

\* The two hex digits of every byte.
hex_of(bytes_arr) ==
    [i \in 1..(2 * Len(bytes_arr)) |->
        IF i % 2 = 1 THEN bytes_arr[(i + 1) \div 2] \div 16
        ELSE bytes_arr[i \div 2] % 16]

\* A coinbase script: a height push of height_len bytes, the length of the
\* tag region, after OP_PUSHDATA1 where pushdata1 is set and larger than
\* the region by over, the region, and the bytes that follow it, a control
\* character and a Z.
script_hex(c) ==
    hex_of(<<c.height_len>> \o [i \in 1..c.height_len |-> 200 + i]
           \o (IF c.pushdata1 THEN <<76>> ELSE <<>>)
           \o <<Len(tag_region(c.parts)) + c.over>>
           \o tag_region(c.parts) \o c.rest)

DatumCalls ==
    [matched : MatchedPools, height_len : {1, 3}, pushdata1 : BOOLEAN,
     parts : UNION {[1..n -> 1..Len(TagParts)] : n \in 0..MaxNames},
     over : {0, 1}, rest : {<<>>, <<1, 90>>}]

InitDatum ==
    /\ OnlyFunction
    /\ fpc = "ready"
    /\ fin \in DatumCalls
    /\ fout = <<>>

DatumCall == Return(enriched(fin.matched, script_hex(fin)))

NextDatum == DatumCall

SpecDatum == InitDatum /\ [][NextDatum]_vars

\* ------------------------------------- backend, process_block by itself
\* The first input of the coinbase transaction as getblock may give it: with
\* scriptSig.hex, with scriptSig but no hex beside coinbase, with coinbase
\* only, with a scriptSig that has no hex, with neither.
SomeVin0 ==
    {[scriptSig |-> [hex |-> <<"a", "b">>]],
     [scriptSig |-> [asm |-> <<"a">>], coinbase |-> <<"a", "b">>],
     [coinbase |-> <<"a", "b">>],
     [scriptSig |-> [asm |-> <<"a">>]],
     [sequence |-> 1]}

\* The calls of process_block followed: whether getblock comes back after
\* the retries, the first input, and whether the store and the publish raise.
ProcessBlockCalls ==
    [rpc_ok : BOOLEAN, vin0 : SomeVin0, is_new_block : BOOLEAN, height : 1..MaxHeight,
     store_ok : BOOLEAN, publish_ok : BOOLEAN]

\* coinbase_script_sig, <<>> where process_block raises KeyError.
coinbase_script_sig(vin0) ==
    IF "scriptSig" \in DOMAIN vin0 /\ "hex" \in DOMAIN vin0.scriptSig
    THEN vin0.scriptSig.hex
    ELSE IF "coinbase" \in DOMAIN vin0 THEN vin0.coinbase
    ELSE <<>>

\* What a call came to: whether an exception left process_block, whether a
\* document was written and whether the block was published.
Outcome(raised, persisted, published_) ==
    [raised |-> raised, persisted |-> persisted, published |-> published_]

\* The same, where the KeyError is not caught.
process_block_call_reraising(c) ==
    IF ~c.rpc_ok THEN Outcome(FALSE, FALSE, FALSE)
    ELSE IF coinbase_script_sig(c.vin0) = <<>> THEN Outcome(TRUE, FALSE, FALSE)
    ELSE IF ~c.store_ok THEN Outcome(FALSE, FALSE, FALSE)
    ELSE IF ~c.publish_ok THEN Outcome(FALSE, TRUE, FALSE)
    ELSE Outcome(FALSE, TRUE, TRUE)

\* process_block: every statement stands in one try block whose handler logs
\* the exception; the document is written after the script was found and the
\* block is published after the document was written.
process_block_call(c) ==
    IF ~c.rpc_ok THEN Outcome(FALSE, FALSE, FALSE)
    ELSE IF coinbase_script_sig(c.vin0) = <<>> THEN Outcome(FALSE, FALSE, FALSE)
    ELSE IF ~c.store_ok THEN Outcome(FALSE, FALSE, FALSE)
    ELSE IF ~c.publish_ok THEN Outcome(FALSE, TRUE, FALSE)
    ELSE Outcome(FALSE, TRUE, TRUE)

InitProcessBlock ==
    /\ OnlyFunction
    /\ fpc = "ready"
    /\ fin \in ProcessBlockCalls
    /\ fout = <<>>

ProcessBlockCall == Return(process_block_call(fin))

NextProcessBlock == ProcessBlockCall

SpecProcessBlock == InitProcessBlock /\ [][NextProcessBlock]_vars

\* -------------------------------------------- backend, zmq_listener
\* Sockets opened and blocks submitted in one run.
MaxSockets == 4
MaxSubmitted == 4

\* What recv_multipart and the handling of its parts can come to: a block,
\* fewer than two parts, an error of the socket in recv_multipart, a message
\* that does not deserialize, a submit that raises.
ZmqOutcomes == {"block", "short", "recv_error", "bad_message", "submit_error"}

\* The inner handler's and the outer handler's time.sleep.
inner_sleep == 1
outer_sleep == 5

\* zmq_listener has made its context and enters the outer loop.
InitZmq ==
    /\ OnlyFunction
    /\ fpc = "connect"
    /\ fin = <<>>
    /\ fout = [sockets |-> 0, submitted |-> 0, slept |-> 0, last |-> "none"]

\* What no step of zmq_listener changes.
zunused == <<fin, cvars, ivars, benv, qvars, svars>>

\* One pass of the outer loop up to the inner loop: a SUB socket is made,
\* subscribed and connected; an exception is caught by the outer handler,
\* which sleeps 5 s.
ZmqConnect(ok) ==
    /\ fpc = "connect"
    /\ fout.sockets < MaxSockets
    /\ fout' = [fout EXCEPT !.sockets = fout.sockets + 1,
                            !.slept = IF ok THEN 0 ELSE outer_sleep,
                            !.last = IF ok THEN "connected" ELSE "connect_error"]
    /\ fpc' = IF ok THEN "recv" ELSE "connect"
    /\ UNCHANGED zunused

\* One pass of the inner loop.  Every exception, of recv_multipart too, is
\* caught by the inner handler, which sleeps 1 s; the loop goes on with the
\* same socket.
ZmqRecv(outcome) ==
    /\ fpc = "recv"
    /\ outcome = "block" => fout.submitted < MaxSubmitted
    /\ fout' = [fout EXCEPT !.submitted = IF outcome = "block" THEN fout.submitted + 1
                                            ELSE fout.submitted,
                            !.slept = IF outcome \in {"block", "short"} THEN 0
                                      ELSE inner_sleep,
                            !.last = outcome]
    /\ fpc' = "recv"
    /\ UNCHANGED zunused

NextZmq ==
    \/ \E ok \in BOOLEAN : ZmqConnect(ok)
    \/ \E outcome \in ZmqOutcomes : ZmqRecv(outcome)

SpecZmq == InitZmq /\ [][NextZmq]_vars

\* ------------------------------------------ backend, recreate_pool
\* RPCConnectionPool.recreation_cooldown
recreation_cooldown == 5
\* Seconds followed after the service has started.
MaxNow == 7

\* What no step of recreate_pool changes.
xunused == <<cvars, ivars, local_file, fvars, qvars, svars>>

\* The pool was built by __init__, last_recreation_time is 0 and time.time()
\* is far beyond the cooldown.
InitRecreate ==
    /\ CollectorOff
    /\ PublisherOff
    /\ FunctionOff
    /\ SyncOff
    /\ blocks = <<>>
    /\ pools = <<>>
    /\ pool_definitions_hash = <<>>
    /\ reindexing = FALSE
    /\ rpc = [t \in ReindexThreads |-> "idle"]
    /\ rcur = [t \in ReindexThreads |-> 0]
    /\ spc = "off"
    /\ sheight = 0
    /\ nlive = 0
    /\ nloads = 0
    /\ bev = NoBlockEvent
    /\ quiet = [t \in ReindexThreads |-> FALSE]
    /\ settled = FALSE
    /\ again = {}
    /\ local_file = <<>>
    /\ now = recreation_cooldown
    /\ last_recreation_time = 0
    /\ pool_lock = NoThread
    /\ xpc = [t \in Callers |-> "idle"]
    /\ current_time = [t \in Callers |-> 0]
    /\ recreated = <<>>

\* A second passes.
ClockTick ==
    /\ now < recreation_cooldown + MaxNow
    /\ now' = now + 1
    /\ UNCHANGED <<last_recreation_time, pool_lock, xpc, current_time, recreated,
                   xunused>>

\* current_time - self.last_recreation_time < self.recreation_cooldown, read
\* before the lock is taken.
InCooldown(t) == now - last_recreation_time < recreation_cooldown

\* recreate_pool up to "with self.lock": current_time is read and the call
\* returns False in the cooldown, otherwise it goes for the lock.
RecreateEnter(t) ==
    /\ xpc[t] = "idle"
    /\ current_time' = [current_time EXCEPT ![t] = now]
    /\ xpc' = [xpc EXCEPT ![t] = IF InCooldown(t) THEN "idle" ELSE "waiting"]
    /\ UNCHANGED <<now, last_recreation_time, pool_lock, recreated, xunused>>

\* The lock is taken.
RecreateAcquire(t) ==
    /\ xpc[t] = "waiting"
    /\ pool_lock = NoThread
    /\ pool_lock' = t
    /\ xpc' = [xpc EXCEPT ![t] = "inside"]
    /\ UNCHANGED <<now, last_recreation_time, current_time, recreated, xunused>>

\* Under the lock the queue is emptied and refilled, last_recreation_time
\* becomes the call's current_time, and the lock is released.
RecreateBody(t) ==
    /\ xpc[t] = "inside"
    /\ pool_lock = t
    /\ recreated' = Append(recreated, now)
    /\ last_recreation_time' = current_time[t]
    /\ pool_lock' = NoThread
    /\ xpc' = [xpc EXCEPT ![t] = "idle"]
    /\ UNCHANGED <<now, current_time, xunused>>

NextRecreate ==
    \/ ClockTick
    \/ \E t \in Callers : RecreateEnter(t)
    \/ \E t \in Callers : RecreateAcquire(t)
    \/ \E t \in Callers : RecreateBody(t)

SpecRecreate == InitRecreate /\ [][NextRecreate]_vars

\* ------------------------------- backend, the ranges of missing blocks
\* More missing heights than this are processed by ranges.
range_threshold == 100
\* Heights below the lowest processed one that have a document after all.
MaxHoles == 3

\* The lowest processed height of the runs, and the heights below it where a
\* document may be found: at both ends, side by side, and in the middle.
LowestOfRuns == MIN_BLOCK_HEIGHT + range_threshold + MaxHoles
HoleCandidates ==
    {MIN_BLOCK_HEIGHT, MIN_BLOCK_HEIGHT + 1, MIN_BLOCK_HEIGHT + 3,
     MIN_BLOCK_HEIGHT + 50, MIN_BLOCK_HEIGHT + 51,
     LowestOfRuns - 2, LowestOfRuns - 1}
HoleSets == {H \in SUBSET HoleCandidates : Cardinality(H) <= MaxHoles}

\* sorted(list(expected_heights - processed_heights_in_range))
missing_heights(processed, lowest) ==
    LET expected == [i \in 1..max(lowest - MIN_BLOCK_HEIGHT, 0) |-> MIN_BLOCK_HEIGHT + i - 1]
        Missing(h) == h \notin processed
    IN SelectSeq(expected, Missing)

\* What the steps over the missing heights leave alone.
runused == <<cvars, ivars, benv, qvars, best_height, lowest_processed_height,
             highest_processed_height,
             todo, failed>>

\* sync_blocks has computed missing_blocks; range_start and prev_height are
\* its first height.
InitRanges ==
    /\ OnlyFunction
    /\ fpc = "found"
    /\ fin \in {missing_heights(H, LowestOfRuns) : H \in HoleSets}
    /\ fout = [ranges |-> <<>>, range_start |-> fin[1], prev_height |-> fin[1],
               i |-> 2, done |-> 0]

\* The same, where a gap of one height does not end a range.
range_step_bridging(st, height) ==
    [st EXCEPT !.ranges = IF height > st.prev_height + 2
                          THEN Append(st.ranges, <<st.prev_height, st.range_start>>)
                          ELSE st.ranges,
               !.range_start = IF height > st.prev_height + 2 THEN height
                               ELSE st.range_start,
               !.prev_height = height,
               !.i = st.i + 1]

\* One pass of "for height in missing_blocks[1:]".
range_step(st, height) ==
    [st EXCEPT !.ranges = IF height # st.prev_height + 1
                          THEN Append(st.ranges, <<st.prev_height, st.range_start>>)
                          ELSE st.ranges,
               !.range_start = IF height # st.prev_height + 1 THEN height
                               ELSE st.range_start,
               !.prev_height = height,
               !.i = st.i + 1]

\* len(missing_blocks) > 100: the ranges are built.
RangesBegin ==
    /\ fpc = "found"
    /\ Len(fin) > range_threshold
    /\ fpc' = "ranges"
    /\ UNCHANGED <<fin, fout, requested, runused>>

\* Otherwise the heights are taken one by one, in batches, ascending.
MissingOneByOne ==
    /\ fpc = "found"
    /\ Len(fin) <= range_threshold
    /\ requested' = fin
    /\ fpc' = "done"
    /\ UNCHANGED <<fin, fout, runused>>

RangesLoop ==
    /\ fpc = "ranges"
    /\ fout.i <= Len(fin)
    /\ fout' = range_step(fout, fin[fout.i])
    /\ UNCHANGED <<fpc, fin, requested, runused>>

\* After the loop the last range is added.
RangesLast ==
    /\ fpc = "ranges"
    /\ fout.i > Len(fin)
    /\ fout' = [fout EXCEPT !.ranges = Append(fout.ranges,
                                              <<fout.prev_height, fout.range_start>>)]
    /\ fpc' = "process"
    /\ UNCHANGED <<fin, requested, runused>>

\* "for range_end, range_start in ranges": sync_range on the next range, the
\* heights it asks getblockhash for.
RangesProcess ==
    /\ fpc = "process"
    /\ IF fout.done < Len(fout.ranges)
       THEN /\ requested' = requested \o sync_range(fout.ranges[fout.done + 1][1],
                                                    fout.ranges[fout.done + 1][2])
            /\ fout' = [fout EXCEPT !.done = fout.done + 1]
            /\ fpc' = fpc
       ELSE /\ fpc' = "done"
            /\ UNCHANGED <<fout, requested>>
    /\ UNCHANGED <<fin, runused>>

NextRanges ==
    \/ RangesBegin
    \/ MissingOneByOne
    \/ RangesLoop
    \/ RangesLast
    \/ RangesProcess

SpecRanges == InitRanges /\ [][NextRanges]_vars

\* ------------------------------------------- backend, load_pools by steps
\* max_retries of load_pools
load_max_retries == 3

\* What load_pools leaves alone.
lunused == <<blocks, reindexing, rcur, spc, sheight, nlive, nloads, bev, quiet,
             settled, again, benv, qvars, svars, cvars>>

\* The cache and its hash when load_pools is called: nothing loaded yet, the
\* list of the last fetch, or a list from the local file beside the hash of
\* an earlier fetch.  fin keeps what they were at the call.
InitLoadSteps ==
    /\ CollectorOff
    /\ PublisherOff
    /\ SyncOff
    /\ blocks \in {<<>>, <<BlockDoc(1, [name |-> "Unknown", id |-> "unknown"])>>}
    /\ pools \in RuleSets \cup {<<>>}
    /\ pool_definitions_hash \in RuleSets \cup {<<>>}
    /\ pools = <<>> => pool_definitions_hash = <<>>
    /\ reindexing = FALSE
    /\ rpc = [t \in ReindexThreads |-> "idle"]
    /\ rcur = [t \in ReindexThreads |-> 0]
    /\ spc = "off"
    /\ sheight = 0
    /\ nlive = 0
    /\ nloads = 0
    /\ bev = NoBlockEvent
    /\ quiet = [t \in ReindexThreads |-> FALSE]
    /\ settled = FALSE
    /\ again = {}
    /\ local_file \in RuleSets \cup {<<>>}
    /\ RpcPoolOff
    /\ fpc = "fetch"
    /\ fin = [attempt |-> 1, fetched |-> FALSE, pools |-> pools,
              pool_definitions_hash |-> pool_definitions_hash]
    /\ fout = <<>>

\* One pass of the retry loop.  requests.get, raise_for_status or json()
\* raises (response = <<>>), or the list arrives: the hash and the cache are
\* set, db.pools is rewritten and, when the hash changed and there are
\* blocks, the reindex thread is started.  A failure of the store is caught
\* as "unexpected error" like a failure of the fetch.
LoadFetch(response, store_ok) ==
    /\ fpc = "fetch"
    /\ LET definitions_changed ==
               /\ pool_definitions_hash # <<>>
               /\ pool_definitions_hash # response
       IN IF response # <<>>
          THEN /\ pool_definitions_hash' = response
               /\ pools' = response
               /\ rpc' = IF store_ok /\ definitions_changed /\ Len(blocks) > 0
                         THEN [rpc EXCEPT ![1] = "check"]
                         ELSE rpc
          ELSE UNCHANGED <<pool_definitions_hash, pools, rpc>>
    /\ IF response # <<>> /\ store_ok
       THEN /\ fpc' = "done"
            /\ fout' = response
            /\ fin' = [fin EXCEPT !.fetched = TRUE]
       ELSE /\ fout' = fout
            /\ fpc' = IF fin.attempt < load_max_retries THEN "fetch" ELSE "file"
            /\ fin' = [fin EXCEPT !.fetched = fin.fetched \/ response # <<>>,
                                  !.attempt = IF fin.attempt < load_max_retries
                                              THEN fin.attempt + 1
                                              ELSE fin.attempt]
    /\ UNCHANGED lunused

\* The local file: when it exists and is read and db.pools takes its list,
\* the cache becomes that list; when it is missing, or anything raises, the
\* cache is left.
LoadFile(readable, store_ok) ==
    /\ fpc = "file"
    /\ IF local_file # <<>> /\ readable /\ store_ok
       THEN /\ pools' = local_file
            /\ fout' = local_file
            /\ fpc' = "done"
       ELSE /\ fpc' = "store"
            /\ UNCHANGED <<pools, fout>>
    /\ UNCHANGED <<pool_definitions_hash, rpc, fin, lunused>>

\* The same, where the caller takes what the store gave as its cache.
LoadStore_adopting(found, db_ok) ==
    /\ fpc = "store"
    /\ fout' = IF db_ok THEN found ELSE <<>>
    /\ pools' = fout'
    /\ fpc' = "done"
    /\ UNCHANGED <<pool_definitions_hash, rpc, fin, lunused>>

\* The store: the list found in db.pools is returned, {} when there is none
\* or the query raises.  Nothing of the manager is assigned.
LoadStore(found, db_ok) ==
    /\ fpc = "store"
    /\ fout' = IF db_ok THEN found ELSE <<>>
    /\ fpc' = "done"
    /\ UNCHANGED <<pools, pool_definitions_hash, rpc, fin, lunused>>

NextLoadSteps ==
    \/ \E response \in RuleSets \cup {<<>>}, store_ok \in BOOLEAN :
           LoadFetch(response, store_ok)
    \/ \E readable, store_ok \in BOOLEAN : LoadFile(readable, store_ok)
    \/ \E found \in RuleSets \cup {<<>>}, db_ok \in BOOLEAN : LoadStore(found, db_ok)

SpecLoadSteps == InitLoadSteps /\ [][NextLoadSteps]_vars

\* ----------------------------------------------------- backend, shutdown
\* The thread that runs shutdown_event.
ShutdownThread == 4

\* What the steps around the shutdown leave alone.
shunused == <<broker, lock, handed, ok_io, opened, qunused>>

\* The service is serving: the connection is open, the block workers are
\* idle and the heartbeat thread runs.
InitShutdown ==
    /\ CollectorOff
    /\ IndexerOff
    /\ FunctionOff
    /\ broker = "up"
    /\ conn = "live"
    /\ cool \in BOOLEAN
    /\ lock = NoThread
    /\ qpc = [t \in Threads \cup {ShutdownThread} |->
                 IF t = HeartbeatThread THEN "hb"
                 ELSE IF t = ShutdownThread THEN "serving" ELSE "idle"]
    /\ qattempt = [t \in Publishers |-> 0]
    /\ qcalls = [t \in Publishers |-> 0]
    /\ handed = [t \in Publishers |-> 0]
    /\ ok_io = [t \in Publishers |-> FALSE]
    /\ result = [t \in Publishers |-> "none"]
    /\ opened = 0

\* The ZMQ listener submits process_block to a worker pool that has not been
\* shut down; the worker comes to publish.
SubmitBlock(t) ==
    /\ qpc[t] = "idle"
    /\ qpc[ShutdownThread] \in {"serving", "closed"}
    /\ qcalls[t] < MaxCalls
    /\ qcalls' = [qcalls EXCEPT ![t] = qcalls[t] + 1]
    /\ qattempt' = [qattempt EXCEPT ![t] = 0]
    /\ result' = [result EXCEPT ![t] = "none"]
    /\ qpc' = [qpc EXCEPT ![t] = "ensure"]
    /\ UNCHANGED <<conn, cool, shunused>>

\* ensure_connection of main.py, called by a worker's publish: with no open
\* connection, False in the cooldown and connect() otherwise.
WorkerEnsure(t) ==
    /\ qpc[t] = "ensure"
    /\ IF conn = "live"
       THEN /\ qpc' = [qpc EXCEPT ![t] = "publish"]
            /\ UNCHANGED <<conn, cool, qattempt, result>>
       ELSE IF cool
       THEN /\ AttemptFailed(t)
            /\ UNCHANGED <<conn, cool>>
       ELSE /\ conn' = AfterConnect
            /\ cool' = TRUE
            /\ qpc' = [qpc EXCEPT ![t] = "publish"]
            /\ UNCHANGED <<qattempt, result>>
    /\ UNCHANGED <<qcalls, shunused>>

\* basic_publish of main.py's publish: on a connection closed in the
\* meantime it raises, and the handler sets self.connection = None.
WorkerPublish(t) ==
    /\ qpc[t] = "publish"
    /\ IF conn = "live"
       THEN /\ result' = [result EXCEPT ![t] = "true"]
            /\ qpc' = [qpc EXCEPT ![t] = "idle"]
            /\ UNCHANGED <<conn, qattempt>>
       ELSE /\ conn' = "none"
            /\ AttemptFailed(t)
    /\ UNCHANGED <<cool, qcalls, shunused>>

\* One round of rabbitmq_heartbeat_task: connect() when the connection is
\* missing or closed.
rabbitmq_heartbeat_task ==
    /\ qpc[HeartbeatThread] = "hb"
    /\ conn # "live"
    /\ conn' = AfterConnect
    /\ cool' = TRUE
    /\ UNCHANGED <<qpc, qattempt, qcalls, result, shunused>>

\* reconnect_cooldown has passed.
ShutdownCooldownOver ==
    /\ qpc[ShutdownThread] # "off"
    /\ cool
    /\ cool' = FALSE
    /\ UNCHANGED <<conn, qpc, qattempt, qcalls, result, shunused>>

\* shutdown_event, first part: the connection is closed when it is open.
ShutdownClose ==
    /\ qpc[ShutdownThread] = "serving"
    /\ conn' = IF conn = "live" THEN "closed" ELSE conn
    /\ qpc' = [qpc EXCEPT ![ShutdownThread] = "closed"]
    /\ UNCHANGED <<cool, qattempt, qcalls, result, shunused>>

\* shutdown_event calls shutdown(wait=True) on the pools: nothing more is
\* accepted.
ShutdownPools ==
    /\ qpc[ShutdownThread] = "closed"
    /\ qpc' = [qpc EXCEPT ![ShutdownThread] = "waiting"]
    /\ UNCHANGED <<conn, cool, qattempt, qcalls, result, shunused>>

\* The pools have run what they had accepted; shutdown_event returns.
ShutdownReturn ==
    /\ qpc[ShutdownThread] = "waiting"
    /\ \A t \in Publishers : qpc[t] = "idle"
    /\ qpc' = [qpc EXCEPT ![ShutdownThread] = "done"]
    /\ UNCHANGED <<conn, cool, qattempt, qcalls, result, shunused>>

NextShutdown ==
    \/ \E t \in Publishers : SubmitBlock(t)
    \/ \E t \in Publishers : WorkerEnsure(t)
    \/ \E t \in Publishers : WorkerPublish(t)
    \/ rabbitmq_heartbeat_task
    \/ ShutdownCooldownOver
    \/ ShutdownClose
    \/ ShutdownPools
    \/ ShutdownReturn

SpecShutdown == InitShutdown /\ [][NextShutdown]_vars

\* ------------------------------------------------- claims on the collector
\* C1: in client mode every mining.notify object read from the upstream
\* socket gets exactly one template published, also when it is read while a
\* mining.subscribe, mining.authorize or keep-alive request awaits its
\* response.
C1_NotifyPublishedOnce == ev.by # "none" => ev.publish = "ok"

\* C2: templates are published in the order in which their mining.notify
\* lines were received: of two published templates the one published first
\* was received first (jobs are numbered in the order the pool wrote them).
C2_PublishedInReceiveOrder ==
    \A i, k \in 1..Len(published) : i < k => published[i] < published[k]
C2_TwoPublished == Len(published) >= 2

\* The objects of the valid lines of b, in order.
RECURSIVE ValidObjects(_)
ValidObjects(b) ==
    IF b = <<>> THEN <<>>
    ELSE (IF JsonValid(SplitHead(b)) THEN <<JsonLoads(SplitHead(b))>> ELSE <<>>)
         \o ValidObjects(SplitRest(b))

\* C3: a newline-terminated JSON object that reaches get_msg cut in two by
\* recv(), at any byte, is returned exactly once, and the bytes after its
\* newline stay in the buffer.  Stated on a stream whose first line is the
\* object: no byte of the stream is lost or read twice, what get_msg has
\* returned is what it has removed from the buffer, the object is the first
\* thing returned, it has been returned as soon as its bytes are in and
\* get_msg reads again, and after its return all that follows its newline
\* is still in the buffer or on the socket.
C3_PartialFrameOnce ==
    LET first == SplitHead(stream)
        tail == SplitRest(stream)
    IN JsonValid(first) =>
        /\ consumed \o buf \o wire = stream
        /\ out = ValidObjects(consumed)
        /\ (Len(out) >= 1 => out[1] = JsonLoads(first))
        /\ (Len(stream) - Len(wire) >= Len(first) /\ ~GetMsgReady(buf)
               => Len(out) >= 1)
        /\ (Len(out) = 1 => buf \o wire \in {tail, <<NL>> \o tail})
\* The object took two recv() calls, has been returned, and bytes that
\* followed it are in the buffer.
C3_SplitObjectReturned ==
    /\ JsonValid(SplitHead(stream))
    /\ Len(out) = 1
    /\ calls[1] = 2
    /\ buf = SplitRest(stream)
    /\ buf # <<>>

\* C4: a complete line that is not valid JSON (an empty line included) is
\* discarded and the valid lines behind it are returned: once every byte has
\* been read and get_msg waits for more, it has returned the object of every
\* valid line of the stream.
C4_BadLineSkipped ==
    (wire = <<>> /\ ~GetMsgReady(buf)) => out = ValidObjects(stream)

\* C5: once it runs, the endpoint's worker ends only by an external
\* interrupt: no connection, store or publish error ends get_stratum_work,
\* also after connect_to_stratum has used up its max_retries attempts.
C5_WorkerNeverEnds == wpc # "crashed"

\* C7: a failed store write of a unit does not suppress the publish of that
\* unit: the publish is still attempted.
C7_StoreFailureKeepsPublish == ev.store = "raised" => ev.publish # "none"

\* The non-empty lines of b that are complete, in order.
RECURSIVE Lines(_)
Lines(b) ==
    IF ~HasLine(b) THEN <<>>
    ELSE (IF SplitHead(b) = <<>> THEN <<>> ELSE <<SplitHead(b)>>) \o Lines(SplitRest(b))

\* C6: in proxy mode the lines written to each side are the lines read from
\* the other side, in order, none dropped and none added, whether or not
\* recording a template succeeds.  Stated for the non-empty lines (the relay
\* skips empty ones), whenever the relay waits in select() or has ended and
\* no write to a socket has failed.
C6_RelayExact ==
    (ppc \in {"select", "ended"} /\ ~send_failed) =>
        /\ Lines(to_client) = Lines(pool_read)
        /\ Lines(to_pool) = Lines(client_read)

\* --------------------------------------------------- claims on the backend
\* C8: db.blocks never holds two documents with the same block hash, also
\* when the ZMQ path and the backfill path process the same block.
C8_OneRecordPerHash ==
    \A i, k \in 1..Len(blocks) : i < k => blocks[i].block_hash # blocks[k].block_hash

\* C9: at most one run of reindex_blocks is between setting the flag and
\* clearing it at any time.
C9_OneReindexAtATime ==
    Cardinality({t \in ReindexThreads : rpc[t] = "loop"}) <= 1

\* C10: once a reindex has completed with no other writer during it or
\* since, every stored document's mining_pool has the id and the name that
\* identifying its script and addresses against the current pool list gives,
\* the Unknown record when nothing matches.
C10_ReindexedMatchesRules ==
    settled =>
        \A i \in 1..Len(blocks) :
            /\ Get(blocks[i].mining_pool, "id") = Get(Reidentified(blocks[i]), "id")
            /\ Get(blocks[i].mining_pool, "name") = Get(Reidentified(blocks[i]), "name")

\* C11: once a reindex has completed undisturbed and nothing has been written
\* and the pool list has not changed since, a pass of a further reindex run
\* leaves every stored document as it is.
C11_ReindexIdempotent ==
    [][(settled /\ rpc' = rpc /\ rcur' # rcur) => blocks' = blocks]_vars

\* A second run has gone over every document after a first run that wrote
\* the Unknown record.
C11_SecondRunDone ==
    /\ settled
    /\ \E t \in again : rpc[t] = "loop" /\ rcur[t] > Len(blocks)
    /\ \E i \in 1..Len(blocks) : Get(blocks[i].mining_pool, "id") = "unknown"

\* C12: a load of the pool list starts a reindex thread exactly when the
\* loaded list differs from the one loaded before and db.blocks is not
\* empty, whichever source the list came from.
C12_LoadSchedulesIffChanged ==
    [][nloads' # nloads =>
          ((\E t \in ReindexThreads : rpc[t] = "idle" /\ rpc'[t] = "check")
              <=> (pools' # pools /\ Len(blocks) > 0))]_vars

\* Index of the first pool of ps, in order, that passes; 0 when none does.
FirstIndex(ps, Passes(_)) ==
    IF \E i \in 1..Len(ps) : Passes(ps[i])
    THEN CHOOSE i \in 1..Len(ps) : Passes(ps[i]) /\ \A k \in 1..(i - 1) : ~Passes(ps[k])
    ELSE 0

\* C13: identification goes by tier over the whole list: the first pool
\* holding one of the addresses; if there is none, the first pool with a
\* literal tag in the text, even after a pool that matches by regex only; a
\* regex match only when no pool matches by address or tag; else nothing.
C13_TierOrder ==
    fpc = "done" =>
        LET ps == fin.pools
            text == CoinbaseText(fin.script)
            HasAddress(p) == \E a \in 1..Len(fin.addresses) : fin.addresses[a] \in p.addresses
            HasTag(p) == TagHit(p, text)
            HasRegex(p) == RegexHit(p, text)
            byAddress == FirstIndex(ps, HasAddress)
            byTag == FirstIndex(ps, HasTag)
            byRegex == FirstIndex(ps, HasRegex)
        IN IF byAddress # 0
           THEN Get(fout, "id") = ps[byAddress].id /\ Get(fout, "match_type") = "address"
           ELSE IF byTag # 0 THEN Get(fout, "id") = ps[byTag].id
           ELSE IF byRegex # 0 THEN Get(fout, "id") = ps[byRegex].id
           ELSE DOMAIN fout = {}

\* ------------------------------------------------- claims on the publisher
\* A thread is inside a with-block of the lock, using the connection.
Using(t) == qpc[t] \in {"ensure_locked", "publish_locked", "reset_locked", "hb_locked"}

\* C14: a thread that uses the connection or the channel holds the lock, so
\* no two threads use them at the same time.
C14_UseUnderLock ==
    /\ \A t \in Threads : Using(t) => lock = t
    /\ Cardinality({t \in Threads : Using(t)}) <= 1

\* A publisher is inside publish's with-block while another publisher and
\* the heartbeat thread wait for the lock.
C14_TwoWaiting ==
    \E t, u \in Publishers :
        /\ t # u
        /\ qpc[t] = "publish_locked"
        /\ qpc[u] \in {"ensure", "publish", "reset"}
        /\ qpc[HeartbeatThread] = "hb"

\* C15: one call of publish hands the message over at most max_retries
\* times, returns True only when a basic_publish and the I/O drive after it
\* returned in that call, and returns False only out of its last attempt.
C15_PublishContract ==
    \A t \in Publishers :
        /\ handed[t] <= publish_max_retries
        /\ qattempt[t] < publish_max_retries
        /\ (result[t] = "true" => ok_io[t])
        /\ (result[t] = "false" => ~ok_io[t] /\ LastAttempt(qattempt[t]))

\* A call has returned False after handing the message over three times.
C15_ThreeTimesFalse ==
    \E t \in Publishers : result[t] = "false" /\ handed[t] = publish_max_retries

\* C16: once the broker is back and stays, the publisher opens one new
\* connection and no second one.
C16_OneReconnect == broker = "recovered" => opened <= 1

\* --------------------------------------------- claims on sync_blocks by batches
\* The heights from a down to b.
Descending(a, b) == [i \in 1..max(a - b + 1, 0) |-> a - i + 1]

IsPrefix(s, t) == Len(s) <= Len(t) /\ \A i \in 1..Len(s) : s[i] = t[i]

Rank(n) == CHOOSE i \in 1..Len(NameOrder) : NameOrder[i] = n

\* The lowercased prev_hash values of the templates that have one.
PrevValues(templates) ==
    {LowerText(templates[i].prev_hash) :
        i \in {k \in 1..Len(templates) : "prev_hash" \in DOMAIN templates[k]}} \ {<<>>}

\* The pool names of the templates whose lowercased prev_hash is v.
NamesAt(templates, v) ==
    {pool_of(templates[i]) :
        i \in {k \in 1..Len(templates) :
                  /\ "prev_hash" \in DOMAIN templates[k]
                  /\ LowerText(templates[k].prev_hash) = v}}

\* C18: the prev_hash_fork flag is returned exactly when the templates carry
\* more than one distinct non-empty lowercased prev_hash; it then has one
\* group per value, each with the sorted, duplicate-free pool names of the
\* templates with that value.
C18_ForkFlag ==
    fpc = "done" =>
        LET values == PrevValues(fin.templates)
        IN /\ (DOMAIN fout # {}) <=> (Cardinality(values) > 1)
           /\ DOMAIN fout # {} =>
                 LET groups == fout.details.groups
                 IN /\ fout.key = "prev_hash_fork"
                    /\ Len(groups) = Cardinality(values)
                    /\ {groups[i].prev_hash : i \in 1..Len(groups)} = values
                    /\ \A i \in 1..Len(groups) :
                          LET names == groups[i].pools
                          IN /\ {names[k] : k \in 1..Len(names)}
                                    = NamesAt(fin.templates, groups[i].prev_hash)
                             /\ \A k \in 1..Len(names) - 1 :
                                    Rank(names[k]) < Rank(names[k + 1])

\* A flag with a group of two pools, given in the other order, one of them
\* on a prev_hash in capitals.
C18_TwoPoolsOneGroup ==
    /\ fpc = "done"
    /\ DOMAIN fout # {}
    /\ \E i \in 1..Len(fout.details.groups) : Len(fout.details.groups[i].pools) = 2
    /\ Len(fin.templates) = 3
    /\ fin.templates[1] = [prev_hash |-> <<"A">>, pool_name |-> "Q"]
    /\ fin.templates[2] = [prev_hash |-> <<"a">>, pool_name |-> "P"]

\* Twice an amount, and an amount and one more.
Twice(x) == <<2 * x[1] + (2 * x[2]) \div 100000, (2 * x[2]) % 100000>>
PlusOne(x) == IF x[2] = 99999 THEN <<x[1] + 1, 0>> ELSE <<x[1], x[2] + 1>>
AtMost(x, y) == x[1] < y[1] \/ (x[1] = y[1] /\ x[2] <= y[2])

\* C20: the subsidy is 5,000,000,000 at height 0 and loses one bit at every
\* halving, so it is 5,000,000,000 >> halvings; it is 2,500,000,000 at
\* 210000, 0 from 64 halvings on and so at 13,440,000; it never increases.
C20_Subsidy ==
    fpc = "done" =>
        LET halvings == fin.height \div halving_interval
            next == get_block_subsidy_sats(fin.height + halving_interval)
        IN /\ (halvings = 0 => fout = <<50000, 0>>)
           /\ (fin.height = 210000 => fout = <<25000, 0>>)
           /\ (fin.height = 13440000 => fout = <<0, 0>>)
           /\ (halvings >= 64 => fout = <<0, 0>>)
           /\ (halvings < 64 => fout \in {Twice(next), PlusOne(Twice(next))})
           /\ AtMost(next, fout)
           /\ AtMost(get_block_subsidy_sats(fin.height + 1), fout)

\* The subsidy at 13,440,000 has been computed.
C20_AtLastHalving == fpc = "done" /\ fin.height = 13440000 /\ fout = <<0, 0>>

\* The output sum of the reconstructed coinbase of a template.
OutputSum(t) ==
    parse_tx_total_output_value_sats(
        reconstruct_coinbase_raw(t.coinbase1, t.extranonce1,
                                 t.extranonce2_length, t.coinbase2))

\* The templates that offend: no merkle branch and outputs above the subsidy.
Offenders(templates, height) ==
    LET subsidy == get_block_subsidy_sats(height)
        Offends(t) == /\ t.merkle_branches = <<>>
                      /\ ~AtMost(<<0, OutputSum(t)>>, subsidy)
    IN SelectSeq(templates, Offends)

\* C19: the offenders are exactly the templates with an empty merkle_branches
\* whose coinbase outputs sum to more than the subsidy of the height, a sum
\* equal to it giving none, and the flag is returned exactly when there is one.
C19_Offenders ==
    fpc = "done" =>
        LET found == Offenders(fin.templates, fin.height)
        IN /\ (DOMAIN fout # {}) <=> (found # <<>>)
           /\ DOMAIN fout # {} =>
                 /\ fout.key = "invalid_coinbase_no_merkle"
                 /\ Len(fout.details.offenders) = Len(found)
                 /\ \A i \in 1..Len(found) :
                       /\ fout.details.offenders[i].pool_name = found[i].pool_name
                       /\ fout.details.offenders[i].total_sats = OutputSum(found[i])
                       /\ fout.details.offenders[i].subsidy_sats
                              = get_block_subsidy_sats(fin.height)

\* Of two templates without merkle branches one pays the subsidy exactly and
\* is not listed, the other pays one satoshi more and is.
C19_EqualAndAbove ==
    /\ fpc = "done"
    /\ Len(fin.templates) = 2
    /\ fin.height = 30 * halving_interval
    /\ fin.templates[1].merkle_branches = <<>>
    /\ fin.templates[1].coinbase2 = <<Output(4)>>
    /\ fin.templates[2].merkle_branches = <<>>
    /\ fin.templates[2].coinbase1 = <<Before>>
    /\ fin.templates[2].coinbase2 = <<Output(3), Output(2)>>
    /\ DOMAIN fout # {}
    /\ Len(fout.details.offenders) = 1
    /\ fout.details.offenders[1].total_sats = 5

\* --------------------------------------------- claims on extract_coinbase_data
\* The place where addr first appears in the outputs.
FirstAppearance(vout, addr) ==
    LET all == listed_addresses(vout)
    IN CHOOSE i \in 1..Len(all) : all[i] = addr /\ \A k \in 1..(i - 1) : all[k] # addr

\* C21: the addresses returned are those of the outputs, each exactly once,
\* by descending sum of the values paid to them, equal sums in the order of
\* first appearance.
C21_AddressesOnceByValue ==
    fpc = "done" =>
        LET all == listed_addresses(fin.vout)
        IN /\ {fout[i] : i \in 1..Len(fout)} = {all[i] : i \in 1..Len(all)}
           /\ \A i, k \in 1..Len(fout) : i # k => fout[i] # fout[k]
           /\ \A i \in 1..Len(fout) - 1 :
                 LET here == address_value(fin.vout, fout[i])
                     there == address_value(fin.vout, fout[i + 1])
                 IN \/ here > there
                    \/ /\ here = there
                       /\ FirstAppearance(fin.vout, fout[i])
                              <= FirstAppearance(fin.vout, fout[i + 1])

\* ------------------------------------------- claims on coinbase reconstruction
\* C22 as stated: two different tuples never reconstruct to the same text.
C22_Injective == fpc = "done" /\ fin.a # fin.b => fout[1] # fout[2]

\* C22, amended: two different tuples whose coinbase1 are of one length,
\* whose extranonce1 are of one length and whose extranonce2_length is the
\* same never reconstruct to the same text.
C22_InjectiveAtFixedLengths ==
    /\ fpc = "done"
    /\ fin.a # fin.b
    /\ Len(fin.a.coinbase1) = Len(fin.b.coinbase1)
    /\ Len(fin.a.extranonce1) = Len(fin.b.extranonce1)
    /\ fin.a.extranonce2_length = fin.b.extranonce2_length
    => fout[1] # fout[2]

\* Two tuples that differ in coinbase2 alone have been reconstructed.
C22_DifferInCoinbase2 ==
    /\ fpc = "done"
    /\ fin.a.coinbase1 = fin.b.coinbase1
    /\ fin.a.extranonce1 = fin.b.extranonce1
    /\ fin.a.extranonce2_length = fin.b.extranonce2_length
    /\ fin.a.extranonce2_length > 0
    /\ fin.a.coinbase2 = <<"0">>
    /\ fin.b.coinbase2 = <<"a">>
    /\ fout[1] # fout[2]

\* ----------------------------------------- claims on the notification height
\* C23: the stored height is the little-endian integer of the n bytes after
\* the push length n when n is at most 4, and 0 when n is larger.
C23_HeightOfPush ==
    fpc = "done" =>
        LET n == fin.script[1]
        IN fout = IF n <= 4 THEN from_bytes_little(SubSeq(fin.script, 2, 1 + n)) ELSE 0

\* ------------------------------------------- claims on the published messages
\* C24: every published message has a type, "block" or "mining.notify", an
\* id, a timestamp and a data field.
C24_Envelope ==
    fpc = "done" =>
        /\ {"type", "id", "timestamp", "data"} \subseteq DOMAIN fout
        /\ fout.type \in {"block", "mining.notify"}

\* ------------------------------------------------------ claims on the shutdown
\* C25: once shutdown_event has returned the publisher connection is closed
\* and no block worker is running.
C25_ClosedAfterShutdown ==
    qpc[ShutdownThread] = "done" =>
        /\ conn # "live"
        /\ \A t \in Publishers : qpc[t] = "idle"

\* ---------------------------------------------------- claims on load_pools
\* C26: when every fetch failed and neither the local file nor the store
\* gave a list, the cache and its hash are what they were at the call and no
\* reindex thread was started.
C26_FailedLoadKeepsSnapshot ==
    (fpc = "done" /\ DOMAIN fin # {} /\ "fetched" \in DOMAIN fin) =>
        ((~fin.fetched /\ fout = <<>>) =>
            /\ pools = fin.pools
            /\ pool_definitions_hash = fin.pool_definitions_hash
            /\ \A t \in ReindexThreads : rpc[t] = "idle")

\* Three fetches failed, the file was there but gave nothing, and neither did
\* the store; a list was cached and blocks are stored.
C26_AllSourcesFailed ==
    /\ fpc = "done"
    /\ "fetched" \in DOMAIN fin
    /\ ~fin.fetched
    /\ fin.attempt = load_max_retries
    /\ fout = <<>>
    /\ local_file # <<>>
    /\ pools \in RuleSets
    /\ Len(blocks) > 0

\* ------------------------------------------------- claims on the session
\* C28: on a connection mining.subscribe goes first and mining.authorize
\* second, the ids sent only grow, and no template is emitted on it before
\* the pool has answered both requests.
C28_Handshake ==
    [][/\ id' >= id
       /\ (wpc' = "subscribe" => wpc \in {"connect", "subscribe"})
       /\ (wpc' = "authorize" => wpc \in {"subscribe", "authorize"})
       /\ (published' # published => answered = 2)]_vars

\* C29: a socket opened after an I/O error starts with an empty
\* received-bytes buffer.
C29_FreshBuffer ==
    [][(~sock /\ sock') => buf' = <<>>]_vars

\* C27: with keep-alive on, a live session on which more than 480 s have
\* passed since the last subscribe is not closed before mining.subscribe has
\* been sent again on its socket, whatever the pool sends or does not send.
C27_ResubscribedOnSameSocket ==
    [][(keep_alive /\ sock /\ wpc = "work" /\ faults = 0
        /\ elapsed > keepalive_interval) => sock']_vars

\* ----------------------------------------- claims on the missing ranges
\* The heights of a range (range_end, range_start), and them descending.
Run(r) == r[2]..r[1]
Down(r) == [k \in 1..(r[1] - r[2] + 1) |-> r[1] - k + 1]
\* The heights sync_range asked for while ranges 1..n were processed.
RECURSIVE DownAll(_, _)
DownAll(ranges, n) ==
    IF n = 0 THEN <<>> ELSE DownAll(ranges, n - 1) \o Down(ranges[n])

\* C30: with more than 100 heights missing, the ranges are disjoint maximal
\* runs of consecutive missing heights, together they are the missing set,
\* and each is processed from its highest height down to its lowest.
C30_RangesAreMaximalRuns ==
    (fpc = "done" /\ Len(fin) > range_threshold) =>
        LET M == {fin[k] : k \in 1..Len(fin)}
            R == fout.ranges
        IN /\ \A k \in 1..Len(R) :
                  /\ R[k][2] <= R[k][1]
                  /\ Run(R[k]) \subseteq M
                  /\ R[k][2] - 1 \notin M
                  /\ R[k][1] + 1 \notin M
           /\ \A j, k \in 1..Len(R) : j # k => Run(R[j]) \cap Run(R[k]) = {}
           /\ UNION {Run(R[k]) : k \in 1..Len(R)} = M
           /\ requested = DownAll(R, Len(R))

\* More than 100 heights were missing, in at least three runs, one of more
\* than one batch, and all were processed.
C30_SeveralRuns ==
    /\ fpc = "done"
    /\ Len(fin) > range_threshold
    /\ Len(fout.ranges) >= 3
    /\ \E k \in 1..Len(fout.ranges) :
           fout.ranges[k][1] - fout.ranges[k][2] >= batch_size
    /\ Len(requested) = Len(fin)

\* --------------------------------------------- claims on the RPC pool
\* C31: the pool is rebuilt at most once in any window of
\* recreation_cooldown seconds, whatever the number of threads calling.
C31_OncePerWindow ==
    \A i, j \in 1..Len(recreated) :
        i < j => recreated[j] - recreated[i] >= recreation_cooldown

\* ------------------------------------------ claims on the reconnect cooldown
\* C32: neither the heartbeat task nor ensure_connection calls connect()
\* while less than reconnect_cooldown has passed since last_reconnect_attempt.
C32_NoReconnectInCooldown ==
    [][/\ (/\ qpc[HeartbeatThread] = "hb_locked"
           /\ qpc'[HeartbeatThread] = "hb"
           /\ conn # "live") => ~cool
       /\ \A t \in Publishers :
              (/\ qpc[t] = "ensure_locked"
               /\ qpc'[t] # "ensure_locked"
               /\ conn' # conn) => ~cool]_vars

\* ------------------------------------------------ claims on the ZMQ listener
\* C33: after an error of the socket, a failed receive included, the
\* listener sleeps 5 s and opens a new socket; after an error in handling a
\* received message it sleeps 1 s and keeps the socket.
C33_SocketErrorReconnects ==
    /\ fout.last \in {"connect_error", "recv_error"} =>
           fout.slept = outer_sleep /\ fpc = "connect"
    /\ fout.last \in {"bad_message", "submit_error"} =>
           fout.slept = inner_sleep /\ fpc = "recv"

\* ------------------------------------------------ claims on process_block
\* C34: no exception leaves process_block, and when getblock fails or the
\* first input has neither scriptSig.hex nor coinbase nothing is written and
\* nothing is published.
C34_ProcessBlockNeverRaises ==
    (fpc = "done" /\ DOMAIN fin # {} /\ "vin0" \in DOMAIN fin) =>
        /\ ~fout.raised
        /\ (~fin.rpc_ok \/ coinbase_script_sig(fin.vin0) = <<>>) =>
               ~fout.persisted /\ ~fout.published

\* getblock came back with a first input that has a scriptSig without hex
\* and no coinbase, and the store and the broker were there.
C34_MalformedSkipped ==
    /\ fpc = "done"
    /\ "vin0" \in DOMAIN fin
    /\ fin.rpc_ok
    /\ fin.store_ok
    /\ fin.publish_ok
    /\ "scriptSig" \in DOMAIN fin.vin0
    /\ coinbase_script_sig(fin.vin0) = <<>>
    /\ ~fout.persisted

\* ------------------------------------------- claims on the DATUM template
\* C35: the result carries datum_template_creator only for the pool OCEAN,
\* and then it is the name of the last part of the tag region that has a
\* name without the markers ocean and datum; where the region has no such
\* part the field is absent, and the other fields are those of the match.
C35_LastFreeName ==
    (fpc = "done" /\ "parts" \in DOMAIN fin) =>
        LET free == {i \in 1..Len(fin.parts) :
                         /\ TagParts[fin.parts[i]].name # <<>>
                         /\ ~TagParts[fin.parts[i]].marker}
            is_ocean == DOMAIN fin.matched # {}
                        /\ fin.matched.name = <<79, 67, 69, 65, 78>>
        IN /\ "datum_template_creator" \in DOMAIN fout <=> (is_ocean /\ free # {})
           /\ \A k \in DOMAIN fin.matched : fout[k] = fin.matched[k]
           /\ "datum_template_creator" \in DOMAIN fout =>
                  fout.datum_template_creator =
                      TagParts[fin.parts[CHOOSE i \in free : \A k \in free : k <= i]].name

\* OCEAN was matched and the tag region, pushed with OP_PUSHDATA1, holds Bob
\* before Datum: Bob was recorded.
C35_CreatorAfterPushdata1 ==
    /\ fpc = "done"
    /\ "parts" \in DOMAIN fin
    /\ fin.pushdata1
    /\ fin.parts = <<1, 2, 3>>
    /\ "datum_template_creator" \in DOMAIN fout
    /\ fout.datum_template_creator = <<66, 111, 98>>

\* ------------------------------------------------ claims on the heartbeat
\* C36: the heartbeat thread holds the lock only inside its with-block; a
\* cycle of it that finds the connection not open while the broker can be
\* reached leaves it open; and a connection that is closed or dropped while
\* the broker can be reached is open again later, unless the broker goes
\* away before.
C36_HeartbeatReopens ==
    /\ [](qpc[HeartbeatThread] = "hb" => lock # HeartbeatThread)
    /\ [][(qpc[HeartbeatThread] = "hb_locked" /\ qpc'[HeartbeatThread] = "hb"
           /\ broker # "down") => conn' = "live"]_vars
    /\ (conn \in {"none", "closed"} /\ broker # "down")
           ~> (conn = "live" \/ broker = "down")

\* The broker is back, no thread has called publish and the connection has
\* been opened again.
C36_ReopenedWithoutPublish ==
    /\ broker = "recovered"
    /\ conn = "live"
    /\ opened = 1
    /\ \A t \in Publishers : qcalls[t] = 0

\* --------------------------------------------- claims on the upstream socket
\* C37: init_socket is reached only while self.sock is None, so the socket
\* it makes is the only one; the attempts of one connect_to_stratum are
\* numbered below max_retries; and no socket is left when the process has
\* ended, with all attempts failed or otherwise.
C37_OneSocket ==
    /\ wpc = "connect" => ~sock
    /\ attempt \in 0..(max_retries - 1)
    /\ wpc \in {"crashed", "boot_failed", "stopped"} => ~sock

\* A session had begun, it was lost, and every attempt of the handler's
\* connect_to_stratum failed.
C37_AllAttemptsFailed ==
    /\ wpc = "crashed"
    /\ ~sock
    /\ nsent > 0

\* ------------------------------------------ claims on the runs of sync_blocks
\* A height without a document between the lowest stored height and the
\* highest one, both as the run has read them once it has.
Hole(h) ==
    /\ h \notin Heights(blocks)
    /\ h > (IF lowest_processed_height < 0 THEN lowest_processed(blocks)
            ELSE lowest_processed_height)
    /\ h < (IF highest_processed_height < 0 THEN highest_processed(blocks)
            ELSE highest_processed_height)

\* C38: every height a run of sync_blocks asks the node for is above the
\* highest stored height the run read and not above best_height, or at
\* least MIN_BLOCK_HEIGHT and below the lowest stored height it read; and
\* a hole between the lowest and the highest stored height stays a hole
\* through every step of every run.
C38_HolesStay ==
    /\ [](\A i \in 1..Len(requested) :
              \/ highest_processed_height < requested[i] /\ requested[i] <= best_height
              \/ MIN_BLOCK_HEIGHT <= requested[i] /\ requested[i] < lowest_processed_height)
    /\ [][\A h \in MIN_BLOCK_HEIGHT..MaxBest : Hole(h) => Hole(h)']_vars

\* A run on a store that held 4 and 6 has fetched 7 and 3 and has ended
\* without a document for 5.
C38_HoleAfterRun ==
    /\ spc = "done"
    /\ {3, 4, 6, 7} \subseteq Heights(blocks)
    /\ Hole(5)
    /\ Len(requested) > 0

\* --------------------------------------- claims on the connections opened
\* C39: no step sets self.connection to None while it holds an open
\* connection, so every connection opened is the current one or is closed.
C39_NoOpenConnectionDropped ==
    [][conn = "live" => conn' # "none"]_vars

\* ------------------------------------------------ claims on the reindex flag
\* C40: the step that ends a run of reindex_blocks, by the end of the cursor
\* or by an exception, leaves the flag false; the flag is true only while
\* some thread is inside a run; and a flag that is true is false again
\* later, so that a thread started by a later change passes the test.
C40_FlagCleared ==
    /\ [][\A t \in ReindexThreads :
              (rpc[t] = "loop" /\ rpc'[t] = "idle") => ~reindexing']_vars
    /\ [](reindexing => \E t \in ReindexThreads : rpc[t] = "loop")
    /\ (reindexing ~> ~reindexing)

\* A run was ended by an exception before the end of the cursor, the flag
\* is false, and another thread has passed the test of the flag since.
C40_NewRunAfterException ==
    \E t, u \in ReindexThreads :
        /\ t # u
        /\ rpc[t] = "idle"
        /\ rcur[t] > 0
        /\ ~reindexing
        /\ rpc[u] = "set"

====
